---- MODULE Spec2Model ----
(***************************************************************************)
(* Retrieval core of VieMedChat: hybrid search (routes/rag/search.py),     *)
(* reranker (routes/rag/reranker.py), the RAG service with its lazily      *)
(* built resources (utils/rag_service.py, utils/start_up.py, app.py) and   *)
(* the parent/child chunker (preprocessing/parent_child_chunker.py).       *)
(*                                                                         *)
(* Text is a sequence of one-character strings.  Python floats that only   *)
(* act as weights are kept as integer tenths; the one place where binary   *)
(* rounding changes a result (int() of a quotient) is modelled by          *)
(* FloatInt.                                                               *)
(***************************************************************************)
EXTENDS Integers, Sequences, FiniteSets, TLC

VARIABLES
    \* ---- Searching.hybrid_search ----
    k1, k2, vector_weight, bm25_weight,
    vector_docs, bm25_docs, n_lex, n_vec, merged_docs, search_pc,
    search_fault, invoked, search_exc,
    \* ---- Reranker.rerank ----
    passages, score_of, scorer_raises, threshold, top_n, backend,
    reranked_passages, rerank_pc, scorer_calls,
    \* ---- RAGService.retrieve_context, evaluate_all_metrics ----
    use_reranker, reranker_obj, has_doc_id,
    top_k, should_rerank, docs, context_candidates, cleaned_context,
    retrieve_path, eval_docs, retrieved_ids, eval_path,
    sub_search_threw, retrieve_outcome,
    \* ---- get_rag_service, RAGService lazy properties, start-up ----
    todo, rag, rag_service_instance, n_services, field, svc_use_reranker,
    n_built, observed, startup_ok,
    \* ---- OptimizedParentChildChunker._create_child_chunks ----
    parent_text, child_max_size, child_min_size, child_overlap,
    start, child_id, children, windows, produced, merged, merge_i,
    returned, chunk_pc,
    \* ---- Embedding.create_embedding ----
    n_splits, batch_size, total_batches, embed_i, successful_batches,
    failed_batches, attempts, index_vectors, embed_pc,
    \* ---- HeaderInjector.inject_headers ----
    heap, in_chunks, in_snapshot, out_once, out_twice, inject_pc,
    \* ---- VietnameseSegmenter.segment ----
    import_ok, tokenizer, compound_order, use_underthesea, seg_text, seg_result, seg_outcome, seg_path, seg_again, seg_pc,
    \* ---- StructureAwareChunker.chunk_markdown ----
    md_max, md_min, md_overlap, markdown_content, md_lines, md_i, current_chunk, current_headers, md_chunks, md_returned, md_pc,
    \* ---- RAGEvaluator.calculate_mrr, calculate_ndcg_at_k ----
    all_results, all_relevant, metric_k, reciprocal_ranks, mrr, ndcgs, avg_ndcg, metric_pc,
    \* ---- StructureAwareChunker.chunk_html ----
    html_max, html_min, html_overlap, soup, html_chunks, html_left, html_returned, html_pc,
    \* ---- ChunkQualityAnalyzer ----
    an_chunks, an_i, boundary_violations, incomplete_sentences, an_pc,
    \* ---- Embedding.add_documents: uploads after the first ----
    added_calls, first_upload,
    \* ---- history of the lazy construction of RAGService.reranker ----
    ctor_calls, ctor_failed, later_calls,
    \* ---- RAGEvaluator.evaluate_all_metrics: the loop over k_values ----
    k_values, table_i, metrics_table,
    \* ---- OptimizedParentChildChunker._create_parent_chunks ----
    par_content, par_filename, parent_max_size, par_lines, par_i, current_section, current_header, current_depth, section_id, parents, par_pc

searchVars == <<k1, k2, vector_weight, bm25_weight,
                vector_docs, bm25_docs, n_lex, n_vec, merged_docs, search_pc,
                search_fault, invoked, search_exc>>

rerankVars == <<passages, score_of, scorer_raises, threshold, top_n, backend,
                reranked_passages, rerank_pc, scorer_calls>>

retrieveVars == <<use_reranker, reranker_obj, has_doc_id,
                  top_k, should_rerank, docs, context_candidates,
                  cleaned_context, retrieve_path,
                  eval_docs, retrieved_ids, eval_path,
                  sub_search_threw, retrieve_outcome>>

initVars == <<todo, rag, rag_service_instance, n_services, field,
              svc_use_reranker, n_built, observed, startup_ok>>

chunkVars == <<parent_text, child_max_size, child_min_size, child_overlap,
               start, child_id, children, windows, produced, merged, merge_i,
               returned, chunk_pc>>

embedVars == <<n_splits, batch_size, total_batches, embed_i,
               successful_batches, failed_batches, attempts, index_vectors,
               embed_pc>>

injectVars == <<heap, in_chunks, in_snapshot, out_once, out_twice, inject_pc>>

segmentVars == <<import_ok, tokenizer, compound_order, use_underthesea, seg_text, seg_result, seg_outcome, seg_path, seg_again, seg_pc>>

markdownVars == <<md_max, md_min, md_overlap, markdown_content, md_lines, md_i, current_chunk, current_headers, md_chunks, md_returned, md_pc>>

metricsVars == <<all_results, all_relevant, metric_k, reciprocal_ranks, mrr, ndcgs, avg_ndcg, metric_pc>>

htmlVars == <<html_max, html_min, html_overlap, soup, html_chunks, html_left, html_returned, html_pc>>

analyzeVars == <<an_chunks, an_i, boundary_violations, incomplete_sentences, an_pc>>

uploadVars == <<added_calls, first_upload>>

ctorVars == <<ctor_calls, ctor_failed, later_calls>>

tableVars == <<k_values, table_i, metrics_table>>

parentVars == <<par_content, par_filename, parent_max_size, par_lines, par_i, current_section, current_header, current_depth, section_id, parents, par_pc>>

vars == <<searchVars, rerankVars, retrieveVars, initVars, chunkVars,
          embedVars, injectVars,
          segmentVars,
          markdownVars,
          metricsVars,
          htmlVars,
          analyzeVars,
          uploadVars,
          ctorVars,
          tableVars,
          parentVars>>

\* what an action of one component leaves alone
notSearch == <<rerankVars, retrieveVars, initVars, chunkVars, embedVars,
             injectVars,
          segmentVars,
          markdownVars,
          metricsVars,
          htmlVars,
          analyzeVars,
          uploadVars,
          ctorVars,
          tableVars,
          parentVars>>
notRerank == <<searchVars, retrieveVars, initVars, chunkVars, embedVars,
             injectVars,
          segmentVars,
          markdownVars,
          metricsVars,
          htmlVars,
          analyzeVars,
          uploadVars,
          ctorVars,
          tableVars,
          parentVars>>
notRetrieve == <<rerankVars, searchVars, initVars, chunkVars, embedVars,
             injectVars,
          segmentVars,
          markdownVars,
          metricsVars,
          htmlVars,
          analyzeVars,
          uploadVars,
          ctorVars,
          tableVars,
          parentVars>>
notInit == <<searchVars, rerankVars, retrieveVars, chunkVars, embedVars,
             injectVars,
          segmentVars,
          markdownVars,
          metricsVars,
          htmlVars,
          analyzeVars,
          uploadVars,
          ctorVars,
          tableVars,
          parentVars>>
notChunk == <<searchVars, rerankVars, retrieveVars, initVars, embedVars,
             injectVars,
          segmentVars,
          markdownVars,
          metricsVars,
          htmlVars,
          analyzeVars,
          uploadVars,
          ctorVars,
          tableVars,
          parentVars>>
notEmbed == <<searchVars, rerankVars, retrieveVars, initVars, chunkVars,
             injectVars,
          segmentVars,
          markdownVars,
          metricsVars,
          htmlVars,
          analyzeVars,
          uploadVars,
          ctorVars,
          tableVars,
          parentVars>>
notInject == <<searchVars, rerankVars, retrieveVars, initVars, chunkVars,
               embedVars,
          segmentVars,
          markdownVars,
          metricsVars,
          htmlVars,
          analyzeVars,
          uploadVars,
          ctorVars,
          tableVars,
          parentVars>>
notSegment == <<searchVars, rerankVars, retrieveVars, initVars,
          chunkVars, embedVars, injectVars,
          markdownVars,
          metricsVars,
          htmlVars,
          analyzeVars,
          uploadVars,
          ctorVars,
          tableVars,
          parentVars>>
notMarkdown == <<searchVars, rerankVars, retrieveVars, initVars,
          chunkVars, embedVars, injectVars, segmentVars,
          metricsVars,
          htmlVars,
          analyzeVars,
          uploadVars,
          ctorVars,
          tableVars,
          parentVars>>
notMetrics == <<searchVars, rerankVars, retrieveVars, initVars,
          chunkVars, embedVars, injectVars, segmentVars, markdownVars,
          htmlVars,
          analyzeVars,
          uploadVars,
          ctorVars,
          tableVars,
          parentVars>>
notHtml == <<searchVars, rerankVars, retrieveVars, initVars,
          chunkVars, embedVars, injectVars, segmentVars, markdownVars, metricsVars,
          analyzeVars,
          uploadVars,
          ctorVars,
          tableVars,
          parentVars>>
notAnalyze == <<searchVars, rerankVars, retrieveVars, initVars,
          chunkVars, embedVars, injectVars, segmentVars, markdownVars, metricsVars, htmlVars,
          uploadVars,
          ctorVars,
          tableVars,
          parentVars>>
notUpload == <<searchVars, rerankVars, retrieveVars, initVars,
          chunkVars, embedVars, injectVars, segmentVars, markdownVars, metricsVars, htmlVars, analyzeVars,
          ctorVars,
          tableVars,
          parentVars>>
notCtor == <<searchVars, rerankVars, retrieveVars, initVars,
          chunkVars, embedVars, injectVars, segmentVars, markdownVars, metricsVars, htmlVars, analyzeVars, uploadVars,
          tableVars,
          parentVars>>
notTable == <<searchVars, rerankVars, retrieveVars, initVars,
          chunkVars, embedVars, injectVars, segmentVars, markdownVars, metricsVars, htmlVars, analyzeVars, uploadVars, ctorVars,
          parentVars>>
notParent == <<searchVars, rerankVars, retrieveVars, initVars,
          chunkVars, embedVars, injectVars, segmentVars, markdownVars, metricsVars, htmlVars, analyzeVars, uploadVars, ctorVars, tableVars>>

----------------------------------------------------------------------------
(* A component that takes no part in the specification being checked      *)

IdleSearch ==
    /\ k1 = 0
    /\ k2 = 0
    /\ vector_weight = 0
    /\ bm25_weight = 0
    /\ vector_docs = <<>>
    /\ bm25_docs = <<>>
    /\ n_lex = 0
    /\ n_vec = 0
    /\ merged_docs = <<>>
    /\ search_pc = "idle"
    /\ search_fault = "none"
    /\ invoked = <<>>
    /\ search_exc = "none"

IdleRerank ==
    /\ passages = <<>>
    /\ score_of = <<>>
    /\ scorer_raises = FALSE
    /\ threshold = 0
    /\ top_n = 0
    /\ backend = "none"
    /\ reranked_passages = <<>>
    /\ rerank_pc = "idle"
    /\ scorer_calls = 0

IdleRetrieve ==
    /\ use_reranker = FALSE
    /\ reranker_obj = "None"
    /\ has_doc_id = FALSE
    /\ top_k = 0
    /\ should_rerank = FALSE
    /\ docs = <<>>
    /\ context_candidates = <<>>
    /\ cleaned_context = <<>>
    /\ retrieve_path = "idle"
    /\ eval_docs = <<>>
    /\ retrieved_ids = <<>>
    /\ eval_path = "idle"
    /\ sub_search_threw = FALSE
    /\ retrieve_outcome = "none"

IdleInit ==
    /\ todo = <<>>
    /\ rag = <<>>
    /\ rag_service_instance = <<>>
    /\ n_services = 0
    /\ field = <<>>
    /\ svc_use_reranker = <<>>
    /\ n_built = <<>>
    /\ observed = <<>>
    /\ startup_ok = TRUE

IdleChunk ==
    /\ parent_text = <<>>
    /\ child_max_size = 0
    /\ child_min_size = 0
    /\ child_overlap = 0
    /\ start = 0
    /\ child_id = 0
    /\ children = <<>>
    /\ windows = <<>>
    /\ produced = <<>>
    /\ merged = <<>>
    /\ merge_i = 0
    /\ returned = <<>>
    /\ chunk_pc = "idle"

IdleEmbed ==
    /\ n_splits = 0
    /\ batch_size = 0
    /\ total_batches = 0
    /\ embed_i = 0
    /\ successful_batches = 0
    /\ failed_batches = 0
    /\ attempts = <<>>
    /\ index_vectors = <<>>
    /\ embed_pc = "idle"

IdleInject ==
    /\ heap = <<>>
    /\ in_chunks = <<>>
    /\ in_snapshot = <<>>
    /\ out_once = <<>>
    /\ out_twice = <<>>
    /\ inject_pc = "idle"

IdleSegment ==
    /\ import_ok = FALSE
    /\ tokenizer = [raises |-> FALSE, words |-> <<>>]
    /\ compound_order = <<>>
    /\ use_underthesea = FALSE
    /\ seg_text = <<>>
    /\ seg_result = <<>>
    /\ seg_outcome = "none"
    /\ seg_path = "none"
    /\ seg_again = <<>>
    /\ seg_pc = "idle"

IdleMarkdown ==
    /\ md_max = 0
    /\ md_min = 0
    /\ md_overlap = 0
    /\ markdown_content = <<>>
    /\ md_lines = <<>>
    /\ md_i = 0
    /\ current_chunk = <<>>
    /\ current_headers = <<>>
    /\ md_chunks = <<>>
    /\ md_returned = <<>>
    /\ md_pc = "idle"

IdleMetrics ==
    /\ all_results = <<>>
    /\ all_relevant = <<>>
    /\ metric_k = 0
    /\ reciprocal_ranks = <<>>
    /\ mrr = [nan |-> FALSE, num |-> 0, den |-> 1]
    /\ ndcgs = <<>>
    /\ avg_ndcg = [nan |-> FALSE, num |-> 0, den |-> 1]
    /\ metric_pc = "idle"

IdleHtml ==
    /\ html_max = 0
    /\ html_min = 0
    /\ html_overlap = 0
    /\ soup = <<>>
    /\ html_chunks = <<>>
    /\ html_left = <<>>
    /\ html_returned = <<>>
    /\ html_pc = "idle"

IdleAnalyze ==
    /\ an_chunks = <<>>
    /\ an_i = 0
    /\ boundary_violations = 0
    /\ incomplete_sentences = <<>>
    /\ an_pc = "idle"

IdleUpload ==
    /\ added_calls = 0
    /\ first_upload = <<>>

IdleCtor ==
    /\ ctor_calls = 0
    /\ ctor_failed = FALSE
    /\ later_calls = 0

IdleTable ==
    /\ k_values = <<>>
    /\ table_i = 0
    /\ metrics_table = <<>>

IdleParent ==
    /\ par_content = <<>>
    /\ par_filename = ""
    /\ parent_max_size = 0
    /\ par_lines = <<>>
    /\ par_i = 0
    /\ current_section = <<>>
    /\ current_header = <<>>
    /\ current_depth = 0
    /\ section_id = 0
    /\ parents = <<>>
    /\ par_pc = "idle"

----------------------------------------------------------------------------
(* Generic helpers: Python list / str primitives                           *)

Min(a, b) == IF a < b THEN a ELSE b
Max(a, b) == IF a > b THEN a ELSE b

Rep(c, n) == [i \in 1..n |-> c]

\* s[:n] for n >= 0
Take(s, n) == SubSeq(s, 1, Min(n, Len(s)))

SeqsUpTo(S, n) == UNION {[1..m -> S] : m \in 0..n}

Range(s) == {s[i] : i \in DOMAIN s}

\* str.isspace for the characters the model uses
IsSpace(c) == c \in {" ", "\n", "\t"}

\* str.strip()
RECURSIVE LStrip(_)
LStrip(s) == IF s # <<>> /\ IsSpace(Head(s)) THEN LStrip(Tail(s)) ELSE s

RECURSIVE RStrip(_)
RStrip(s) ==
    IF s # <<>> /\ IsSpace(s[Len(s)])
    THEN RStrip(SubSeq(s, 1, Len(s) - 1))
    ELSE s

Strip(s) == RStrip(LStrip(s))

----------------------------------------------------------------------------
(* Hybrid search                                                           *)

\* doc.page_content[:100]
FingerprintLen == 100

\* k1 and k2 as RAGService.search_engine constructs Searching
K1 == 5
K2 == 5

\* bound on the number of hits a sub-search returns (at most k1 resp. k2)
MaxHits == 3

\* page contents the two sub-searches can return: two long passages that
\* agree on their first 100 characters and one short passage
LongX  == Rep("a", FingerprintLen) \o <<"x">>
LongY  == Rep("a", FingerprintLen) \o <<"y">>
ShortB == <<"b", "c">>
Contents == {LongX, LongY, ShortB}

\* weights in tenths: the default (0.3, 0.7), the evaluation's (0.6, 0.4),
\* equal weights, one-sided weights and the degenerate (0, 0)
WeightPairs == {<<3, 7>>, <<6, 4>>, <<5, 5>>, <<0, 7>>, <<10, 0>>, <<0, 0>>}

Fingerprint(content) == Take(content, FingerprintLen)

\* A Document object: its content plus the identity of the object (which
\* sub-search produced it, at which rank)
MkDocs(src, contents) ==
    [i \in DOMAIN contents |->
        [page_content |-> contents[i], src |-> src, rank |-> i]]

\* int(k * w / (vector_weight + bm25_weight)) on floats.  The quotient is
\* exact up to one rounding error, so int() gives the exact floor unless
\* the exact quotient is a positive integer, where the float result may be
\* one ulp below it (int(3 * 0.7 / 0.7) = 2).
FloatInt(num, den) ==
    IF num % den = 0 /\ num > 0
    THEN {num \div den - 1, num \div den}
    ELSE {num \div den}

\* one "for doc in ...: if content not in seen_content" loop
RECURSIVE AddDocsNoDedup(_, _)
AddDocsNoDedup(ds, acc) ==
    IF ds = <<>> THEN acc
    ELSE AddDocsNoDedup(Tail(ds),
            [seen   |-> acc.seen \cup {Fingerprint(Head(ds).page_content)},
             merged |-> Append(acc.merged, Head(ds))])

RECURSIVE AddDocs(_, _)
AddDocs(ds, acc) ==
    IF ds = <<>> THEN acc
    ELSE LET content == Fingerprint(Head(ds).page_content)
         IN  IF content \notin acc.seen
             THEN AddDocs(Tail(ds),
                     [seen   |-> acc.seen \cup {content},
                      merged |-> Append(acc.merged, Head(ds))])
             ELSE AddDocs(Tail(ds), acc)

\* the merge of hybrid_search with the two slice bounds already evaluated
HybridMergeVectorFirst(vdocs, bdocs, nl, nv) ==
    AddDocs(Take(bdocs, nl),
            AddDocs(Take(vdocs, nv), [seen |-> {}, merged |-> <<>>])).merged

HybridMergeNoSlice(vdocs, bdocs, nl, nv) ==
    AddDocs(vdocs, AddDocs(bdocs, [seen |-> {}, merged |-> <<>>])).merged

HybridMerge(vdocs, bdocs, nl, nv) ==
    AddDocs(Take(vdocs, nv),
            AddDocs(Take(bdocs, nl), [seen |-> {}, merged |-> <<>>])).merged

\* the sub-searches hybrid_search has invoked when sub-search fault raises:
\* vector_search is called first, bm25_search only after it has returned
SubSearchCallsBoth(fault) == <<"vector", "bm25">>

SubSearchCalls(fault) ==
    IF fault = "vector" THEN <<"vector">> ELSE <<"vector", "bm25">>

\* what the failing sub-search raises
SubSearchError(fault) ==
    IF fault = "vector" THEN "vector_search error" ELSE "bm25_search error"

InitSearchInputs ==
    /\ k1 = K1
    /\ k2 = K2
    /\ \E w \in WeightPairs : vector_weight = w[1] /\ bm25_weight = w[2]
    /\ \E cs \in SeqsUpTo(Contents, Min(MaxHits, K1)) : vector_docs = MkDocs("vector", cs)
    /\ \E cs \in SeqsUpTo(Contents, Min(MaxHits, K2)) : bm25_docs = MkDocs("bm25", cs)
    /\ n_lex = 0
    /\ n_vec = 0
    /\ merged_docs = <<>>
    /\ search_pc = "call"
    /\ search_fault \in {"none", "vector", "bm25"}
    /\ invoked = <<>>
    /\ search_exc = "none"

\* hybrid_search returning normally
hybrid_search ==
    /\ search_pc = "call"
    /\ search_fault = "none"
    /\ vector_weight + bm25_weight > 0
    /\ \E nl \in FloatInt(k2 * bm25_weight, vector_weight + bm25_weight),
          nv \in FloatInt(k1 * vector_weight, vector_weight + bm25_weight) :
            /\ n_lex' = nl
            /\ n_vec' = nv
            /\ merged_docs' = HybridMerge(vector_docs, bm25_docs, nl, nv)
    /\ invoked' = SubSearchCalls(search_fault)
    /\ search_pc' = "done"
    /\ UNCHANGED <<k1, k2, vector_weight, bm25_weight, vector_docs, bm25_docs,
                   search_fault, search_exc>>
    /\ UNCHANGED notSearch

\* hybrid_search with both weights 0: both sub-searches have returned and
\* the first slice bound divides by zero
hybrid_search_zero_div ==
    /\ search_pc = "call"
    /\ search_fault = "none"
    /\ vector_weight + bm25_weight = 0
    /\ invoked' = SubSearchCalls(search_fault)
    /\ search_exc' = "ZeroDivisionError"
    /\ search_pc' = "raised"
    /\ UNCHANGED <<k1, k2, vector_weight, bm25_weight, vector_docs, bm25_docs,
                   n_lex, n_vec, merged_docs, search_fault>>
    /\ UNCHANGED notSearch

\* hybrid_search when vector_search or bm25_search raises: no try block
\* surrounds the two calls, so the exception leaves hybrid_search as it is
hybrid_search_sub_search_raises ==
    /\ search_pc = "call"
    /\ search_fault # "none"
    /\ invoked' = SubSearchCalls(search_fault)
    /\ search_exc' = SubSearchError(search_fault)
    /\ search_pc' = "raised"
    /\ UNCHANGED <<k1, k2, vector_weight, bm25_weight, vector_docs, bm25_docs,
                   n_lex, n_vec, merged_docs, search_fault>>
    /\ UNCHANGED notSearch

InitSearch == InitSearchInputs /\ IdleRerank /\ IdleRetrieve /\ IdleInit /\ IdleChunk /\ IdleEmbed /\ IdleInject /\ IdleSegment /\ IdleMarkdown /\ IdleMetrics /\ IdleHtml /\ IdleAnalyze /\ IdleUpload /\ IdleCtor /\ IdleTable /\ IdleParent

NextSearch ==
    \/ hybrid_search
    \/ hybrid_search_zero_div
    \/ hybrid_search_sub_search_raises

SpecSearch == InitSearch /\ [][NextSearch]_vars

----------------------------------------------------------------------------
(* Claims about hybrid search                                              *)

\* the candidates hybrid_search looks at, in the order it looks at them
Candidates == Take(bm25_docs, n_lex) \o Take(vector_docs, n_vec)

Before(d, e) ==
    \/ d.src = "bm25" /\ e.src = "vector"
    \/ d.src = e.src /\ d.rank < e.rank

FirstOfItsFingerprint(d) ==
    \A e \in Range(Candidates) :
        Before(e, d) =>
            Fingerprint(e.page_content) # Fingerprint(d.page_content)

\* C1: no two documents returned by hybrid_search agree on the first 100
\* characters of page_content.
C1_NoDuplicateFingerprint ==
    search_pc = "done" =>
        \A i, j \in DOMAIN merged_docs :
            i # j => Take(merged_docs[i].page_content, 100)
                        # Take(merged_docs[j].page_content, 100)

C1_Witness ==
    /\ search_pc = "done"
    /\ Len(merged_docs) >= 2
    /\ Len(merged_docs) < Len(Candidates)
    /\ \E i \in DOMAIN merged_docs : Len(merged_docs[i].page_content) > 100

\* C2: the result is the candidate list (lexical prefix, then vector
\* prefix, each in rank order) with every candidate removed whose
\* fingerprint an earlier candidate already has; nothing is re-sorted.
C2_AdmissionOrder ==
    search_pc = "done" =>
        merged_docs = SelectSeq(Candidates, FirstOfItsFingerprint)

C2_Witness ==
    /\ search_pc = "done"
    /\ \E i, j \in DOMAIN merged_docs :
          /\ i < j
          /\ merged_docs[i].src = "bm25"
          /\ merged_docs[j].src = "vector"
    /\ \E d \in Range(Take(vector_docs, n_vec)) :
          /\ d \notin Range(merged_docs)
          /\ \E e \in Range(merged_docs) :
                /\ e.src = "bm25"
                /\ Fingerprint(e.page_content) = Fingerprint(d.page_content)

\* floor(k * w / (vector_weight + bm25_weight)) in exact arithmetic
ExactFloor(k, w) == (k * w) \div (vector_weight + bm25_weight)

\* C3: only the top floor(k2*bw/(vw+bw)) lexical and the top
\* floor(k1*vw/(vw+bw)) vector hits are considered, the result is no
\* longer than their sum, which is at most k1 + k2, and every returned
\* document is an element of exactly one of the two prefixes.
C3_PrefixBound ==
    search_pc = "done" =>
        LET nl == ExactFloor(k2, bm25_weight)
            nv == ExactFloor(k1, vector_weight)
            lexPrefix == Range(Take(bm25_docs, nl))
            vecPrefix == Range(Take(vector_docs, nv))
        IN  /\ Len(merged_docs) <= nl + nv
            /\ nl + nv <= k1 + k2
            /\ \A i \in DOMAIN merged_docs :
                  (merged_docs[i] \in lexPrefix)
                      # (merged_docs[i] \in vecPrefix)

C3_Witness ==
    /\ search_pc = "done"
    /\ Len(bm25_docs) > ExactFloor(k2, bm25_weight)
    /\ Len(vector_docs) > ExactFloor(k1, vector_weight)
    /\ Len(merged_docs) >= 2

----------------------------------------------------------------------------
(* Reranker                                                                *)

\* bound on the number of passages handed to rerank
MaxPassages == 3

\* passages and relevance scores in tenths (the scorer is normalised to
\* [0, 1]); thresholds: the evaluation's default 0.2, rerank's default 0.3
\* and a stricter 0.5
PassageSet == {"p", "q", "r"}
ScoreLevels == {2, 3, 5, 9}
Thresholds == {2, 3, 5}
TopNs == {1, 2, 5}

\* sorted(pairs, key=lambda x: x[0], reverse=True): stable, descending
RECURSIVE InsertDesc(_, _)
InsertDesc(sorted, x) ==
    IF sorted = <<>> THEN <<x>>
    ELSE IF Head(sorted)[1] >= x[1]
         THEN <<Head(sorted)>> \o InsertDesc(Tail(sorted), x)
         ELSE <<x>> \o sorted

RECURSIVE SortedDesc(_)
SortedDesc(pairs) ==
    IF pairs = <<>> THEN <<>>
    ELSE InsertDesc(SortedDesc(SubSeq(pairs, 1, Len(pairs) - 1)),
                    pairs[Len(pairs)])

\* zip(scores, passages) with scores = compute_score(...)
ScoredPairs(ps, sc) == [i \in DOMAIN ps |-> <<sc[ps[i]], ps[i]>>]

AtLeast(t, pair) == pair[1] >= t

\* the BAAI branch: filter by threshold, sort descending, keep top_n
RerankBaaiStrictFilter(ps, sc, t, n) ==
    LET filtered_pairs == SelectSeq(ScoredPairs(ps, sc), LAMBDA x : x[1] > t)
        reranked_pairs == SortedDesc(filtered_pairs)
    IN  [i \in 1..Min(n, Len(reranked_pairs)) |-> reranked_pairs[i][2]]

RerankBaai(ps, sc, t, n) ==
    LET filtered_pairs == SelectSeq(ScoredPairs(ps, sc), LAMBDA x : x[1] >= t)
        reranked_pairs == SortedDesc(filtered_pairs)
    IN  [i \in 1..Min(n, Len(reranked_pairs)) |-> reranked_pairs[i][2]]

\* what cohere's rerank endpoint may answer for top_n = m: the indices of
\* m documents with the highest relevance, by non-increasing relevance;
\* the service decides the order of ties
CohereResults(ps, sc, m) ==
    {r \in [1..m -> DOMAIN ps] :
        /\ \A i, j \in 1..m : i < j =>
              /\ r[i] # r[j]
              /\ sc[ps[r[i]]] >= sc[ps[r[j]]]
        /\ \A x \in DOMAIN ps :
              (\A i \in 1..m : r[i] # x) =>
                  \A i \in 1..m : sc[ps[r[i]]] >= sc[ps[x]]}

\* the Cohere branch after the service answered with results
RerankCohereNoFilter(ps, sc, t, results) ==
    [i \in DOMAIN results |-> ps[results[i]]]

RerankCohere(ps, sc, t, results) ==
    LET filtered_results == SelectSeq(results, LAMBDA r : sc[ps[r]] >= t)
    IN  [i \in DOMAIN filtered_results |-> ps[filtered_results[i]]]

InitRerankInputs ==
    /\ passages \in SeqsUpTo(PassageSet, MaxPassages)
    /\ score_of \in [PassageSet -> ScoreLevels]
    /\ scorer_raises \in BOOLEAN
    /\ threshold \in Thresholds
    /\ top_n \in TopNs
    /\ backend \in {"baai", "cohere"}
    /\ reranked_passages = <<>>
    /\ rerank_pc = "call"
    /\ scorer_calls = 0

\* how often one rerank call invokes compute_score resp. the Cohere
\* client: "if not passages: return []" comes before either
ScorerCallsAlways(ps) == 1

ScorerCalls(ps) == IF ps = <<>> THEN 0 ELSE 1

InitRerank == InitRerankInputs /\ IdleSearch /\ IdleRetrieve /\ IdleInit /\ IdleChunk /\ IdleEmbed /\ IdleInject /\ IdleSegment /\ IdleMarkdown /\ IdleMetrics /\ IdleHtml /\ IdleAnalyze /\ IdleUpload /\ IdleCtor /\ IdleTable /\ IdleParent

\* rerank([]) returns [] before any scorer is used
rerank_empty ==
    /\ rerank_pc = "call"
    /\ passages = <<>>
    /\ reranked_passages' = <<>>
    /\ scorer_calls' = scorer_calls + ScorerCalls(passages)
    /\ rerank_pc' = "done"
    /\ UNCHANGED <<passages, score_of, scorer_raises, threshold, top_n, backend>>
    /\ UNCHANGED notRerank

rerank_baai ==
    /\ rerank_pc = "call"
    /\ passages # <<>>
    /\ backend = "baai"
    /\ ~scorer_raises
    /\ reranked_passages' = RerankBaai(passages, score_of, threshold, top_n)
    /\ scorer_calls' = scorer_calls + ScorerCalls(passages)
    /\ rerank_pc' = "done"
    /\ UNCHANGED <<passages, score_of, scorer_raises, threshold, top_n, backend>>
    /\ UNCHANGED notRerank

rerank_cohere ==
    /\ rerank_pc = "call"
    /\ passages # <<>>
    /\ backend = "cohere"
    /\ ~scorer_raises
    /\ \E results \in CohereResults(passages, score_of,
                                    Min(top_n, Len(passages))) :
          reranked_passages' =
              RerankCohere(passages, score_of, threshold, results)
    /\ scorer_calls' = scorer_calls + ScorerCalls(passages)
    /\ rerank_pc' = "done"
    /\ UNCHANGED <<passages, score_of, scorer_raises, threshold, top_n, backend>>
    /\ UNCHANGED notRerank

\* compute_score or the cohere client raises: rerank has no handler
rerank_raises ==
    /\ rerank_pc = "call"
    /\ passages # <<>>
    /\ scorer_raises
    /\ scorer_calls' = scorer_calls + ScorerCalls(passages)
    /\ rerank_pc' = "raised"
    /\ UNCHANGED <<passages, score_of, scorer_raises, threshold, top_n, backend,
                   reranked_passages>>
    /\ UNCHANGED notRerank

NextRerank ==
    \/ rerank_empty
    \/ rerank_baai
    \/ rerank_cohere
    \/ rerank_raises

SpecRerank == InitRerank /\ [][NextRerank]_vars

----------------------------------------------------------------------------
(* Claims about the reranker                                               *)

Count(s, x) == Cardinality({i \in DOMAIN s : s[i] = x})

\* C4: rerank of a non-empty list returns only input passages scoring at
\* least the threshold, by non-increasing score, at most top_n of them,
\* and they are the highest-scoring survivors of the threshold filter.
C4_RerankFilterSortTruncate ==
    (rerank_pc = "done" /\ passages # <<>>) =>
        LET out == reranked_passages
            survivors == {i \in DOMAIN passages :
                              score_of[passages[i]] >= threshold}
        IN  /\ \A i \in DOMAIN out :
                  /\ out[i] \in Range(passages)
                  /\ score_of[out[i]] >= threshold
            /\ \A i, j \in DOMAIN out :
                  i < j => score_of[out[i]] >= score_of[out[j]]
            /\ Len(out) = Min(top_n, Cardinality(survivors))
            /\ \A p \in PassageSet :
                  /\ Count(out, p) <= Count(passages, p)
                  /\ (score_of[p] >= threshold
                          /\ Count(out, p) < Count(passages, p))
                        => \A j \in DOMAIN out : score_of[out[j]] >= score_of[p]

\* filtering, sorting and truncation all take effect in one call
C4_Witness ==
    /\ rerank_pc = "done"
    /\ Len(passages) = 3
    /\ score_of[passages[3]] < threshold
    /\ score_of[passages[1]] >= threshold
    /\ score_of[passages[1]] < score_of[passages[2]]
    /\ top_n = 1
    /\ reranked_passages = <<passages[2]>>

\* C14: rerank of an empty passage list returns an empty list and invokes
\* neither the cross-encoder nor the Cohere client, whatever the threshold.
C14_EmptyInputSkipsScorer ==
    (rerank_pc # "call" /\ passages = <<>>) =>
        /\ rerank_pc = "done"
        /\ reranked_passages = <<>>
        /\ scorer_calls = 0

\* rerank of an empty list has returned although the scorer would raise
C14_Witness ==
    /\ rerank_pc = "done"
    /\ passages = <<>>
    /\ scorer_raises
    /\ backend = "cohere"

----------------------------------------------------------------------------
(* RAGService.retrieve_context and the evaluator's retrieval loop          *)

\* Reranker(top_n=5) as RAGService.reranker constructs it
ServiceTopN == 5
\* rerank's default threshold 0.3, in tenths
DefaultThreshold == 3
\* hybrid_search's default weights 0.3 / 0.7, in tenths
DefaultVectorWeight == 3
DefaultBm25Weight == 7
\* the evaluator's Searching(k1=10, k2=10), weights 0.6 / 0.4, and
\* Reranker(top_n=10)
EvalK1 == 10
EvalK2 == 10
EvalVectorWeight == 6
EvalBm25Weight == 4
EvalTopN == 10

\* bounds on the number of hits a sub-search returns for the served query
\* and on the top_k a caller asks for
MaxRetrHits == 2
MaxVecHits == 1
MaxTopK == 2

\* page contents the served query retrieves: a plain passage, one with
\* characters the cleaning removes, and one that is empty once cleaned
Messy == <<" ", "*", "b", "\n", "c", "\n">>
Blank == <<"\n", "*">>
RetrContents == {ShortB, Messy, Blank}

\* the contents the vector index answers with
VecContents == {ShortB, Messy}

\* what the cross-encoder scores the passages, in tenths: one passage
\* below rerank's threshold, the others above it
ScoreTables ==
    {[c \in RetrContents |-> IF c = ShortB THEN 2 ELSE 5]}

\* the scores in the server process: as above, or every passage above
\* the threshold
ServerScoreTables ==
    ScoreTables \cup {[c \in RetrContents |-> IF c = ShortB THEN 4 ELSE 5]}

\* preprocess_context
CleanItem(item) ==
    Strip(SelectSeq([i \in DOMAIN item |->
                        IF item[i] = "\n" THEN " " ELSE item[i]],
                    LAMBDA c : c # "*"))

RECURSIVE preprocess_context(_)
preprocess_context(context) ==
    IF context = <<>> THEN <<>>
    ELSE LET cleaned_item == CleanItem(Head(context))
         IN  IF cleaned_item # <<>>
             THEN <<cleaned_item>> \o preprocess_context(Tail(context))
             ELSE preprocess_context(Tail(context))

\* Searching.get_context on Document objects
get_context(ds) == [i \in DOMAIN ds |-> ds[i].page_content]

\* doc.metadata.get("doc_id", i): the chunk's id when the metadata has
\* one, else the position in the result list
DocId(doc, i) == IF has_doc_id THEN doc.page_content ELSE i - 1

\* what search_engine.hybrid_search can return for the query
SearchResults(kk1, kk2, vw, bw) ==
    {HybridMerge(vector_docs, bm25_docs, nl, nv) :
        nl \in FloatInt(kk2 * bw, vw + bw),
        nv \in FloatInt(kk1 * vw, vw + bw)}

\* the except branch of the rerank call in retrieve_context
RerankFallbackEmpty(candidates, k) == <<>>

RerankFallback(candidates, k) == Take(candidates, k)

\* initial_k = top_k * 2 if should_rerank else top_k
InitialK(k, rerank) == IF rerank THEN k * 2 ELSE k

\* the hits the two sub-searches return for the query, and the scores the
\* cross-encoder would give them
InitQuery ==
    /\ \E cs \in SeqsUpTo(VecContents, MaxVecHits) :
          vector_docs = MkDocs("vector", cs)
    /\ \E cs \in SeqsUpTo(RetrContents, MaxRetrHits) :
          bm25_docs = MkDocs("bm25", cs)
    /\ n_lex = 0
    /\ n_vec = 0
    /\ merged_docs = <<>>
    /\ search_pc = "idle"
    /\ search_fault = "none"
    /\ invoked = <<>>
    /\ search_exc = "none"
    /\ scorer_raises = FALSE
    /\ passages = <<>>
    /\ threshold = DefaultThreshold
    /\ backend = "baai"
    /\ reranked_passages = <<>>
    /\ rerank_pc = "idle"
    /\ scorer_calls = 0
    /\ top_k = 0
    /\ should_rerank = FALSE
    /\ docs = <<>>
    /\ context_candidates = <<>>
    /\ cleaned_context = <<>>
    /\ eval_docs = <<>>
    /\ retrieved_ids = <<>>
    /\ sub_search_threw = FALSE
    /\ retrieve_outcome = "none"

\* the server process: RAGService.__init__ through get_rag_service, whose
\* callers all pass use_reranker=True
InitServer ==
    /\ InitQuery
    /\ score_of \in ServerScoreTables
    /\ k1 = K1
    /\ k2 = K2
    /\ vector_weight = DefaultVectorWeight
    /\ bm25_weight = DefaultBm25Weight
    /\ top_n = ServiceTopN
    /\ use_reranker = TRUE
    /\ reranker_obj = "None"
    /\ has_doc_id = FALSE
    /\ retrieve_path = "idle"
    /\ eval_path = "off"

\* the evaluation script: run_evaluation_with_reranker.py __main__
InitEvaluation ==
    /\ InitQuery
    /\ score_of \in ScoreTables
    /\ k1 = EvalK1
    /\ k2 = EvalK2
    /\ vector_weight = EvalVectorWeight
    /\ bm25_weight = EvalBm25Weight
    /\ top_n = EvalTopN
    /\ use_reranker = TRUE
    /\ reranker_obj = "Reranker"
    /\ has_doc_id \in BOOLEAN
    /\ retrieve_path = "off"
    /\ eval_path = "idle"

InitRetrieve == (InitServer \/ InitEvaluation) /\ IdleInit /\ IdleChunk /\ IdleEmbed /\ IdleInject /\ IdleSegment /\ IdleMarkdown /\ IdleMetrics /\ IdleHtml /\ IdleAnalyze /\ IdleUpload /\ IdleCtor /\ IdleTable /\ IdleParent

\* bounds of the history counters: construction attempts, and calls made
\* after the call in which the construction failed
MaxCtorCalls == 2
MaxLaterCalls == 2

\* the same getter without "self.use_reranker = False" in the except
reranker_getter_keeps_flag(obj, flag, ctor_ok) ==
    IF obj = "None" /\ flag
    THEN [obj |-> IF ctor_ok THEN "Reranker" ELSE "None",
          flag |-> flag,
          constructs |-> TRUE]
    ELSE [obj |-> obj, flag |-> flag, constructs |-> FALSE]

\* the reranker property: what self._reranker and self.use_reranker are
\* after one read, and whether the read called Reranker(...)
reranker_getter(obj, flag, ctor_ok) ==
    IF obj = "None" /\ flag
    THEN [obj |-> IF ctor_ok THEN "Reranker" ELSE "None",
          flag |-> IF ctor_ok THEN flag ELSE FALSE,
          constructs |-> TRUE]
    ELSE [obj |-> obj, flag |-> flag, constructs |-> FALSE]

\* retrieve_context(query, top_k, search_type, use_reranker): the whole
\* call, including the lazy construction of the reranker it may trigger.
\* Every caller passes search_type="hybrid" (the default).
\*   arg         the use_reranker argument ("None" when not passed)
\*   search_ok   FALSE when a sub-search raises
\*   ctor_ok     FALSE when Reranker(...) raises on construction
\*   rerank_ok   FALSE when Reranker.rerank raises
\* sub_search_threw is history; retrieve_outcome tells whether the call
\* returned a list or let an exception out: every path returns.
\* ctor_calls, ctor_failed and later_calls are history too: how often
\* Reranker(...) was called, whether a call of it raised, and how many
\* retrieve_context calls were made after the one in which it raised.
retrieve_context ==
    \E k \in 1..MaxTopK, arg \in {"None", "True", "False"},
       search_ok \in BOOLEAN :
      LET rerank_wanted == IF arg # "None" THEN arg = "True" ELSE use_reranker
          initial_k  == InitialK(k, rerank_wanted)
          reads      == search_ok /\ rerank_wanted
          constructs ==
              reads /\ reranker_getter(reranker_obj, use_reranker, TRUE).constructs
      IN
      \E ctor_ok \in IF constructs THEN BOOLEAN ELSE {TRUE} :
      LET got == IF reads
                 THEN reranker_getter(reranker_obj, use_reranker, ctor_ok)
                 ELSE [obj |-> reranker_obj, flag |-> use_reranker,
                       constructs |-> FALSE]
          reranker_after == got.obj
          flag_after == got.flag
      IN
      \E rerank_ok \in IF search_ok /\ rerank_wanted
                            /\ reranker_after # "None"
                        THEN BOOLEAN ELSE {TRUE} :
      /\ top_k' = k
      /\ should_rerank' = rerank_wanted
      /\ sub_search_threw' = ~search_ok
      /\ retrieve_outcome' = "returned"
      /\ IF ~search_ok
         THEN \* the outer except: return []
              /\ retrieve_path' = "error"
              /\ cleaned_context' = <<>>
              /\ UNCHANGED <<docs, context_candidates, use_reranker,
                             reranker_obj>>
         ELSE
           \E found \in SearchResults(k1, k2, DefaultVectorWeight,
                                      DefaultBm25Weight) :
             LET candidates == get_context(Take(found, initial_k)) IN
             /\ docs' = found
             /\ context_candidates' = candidates
             /\ reranker_obj' = reranker_after
             /\ use_reranker' = flag_after
             /\ IF rerank_wanted /\ reranker_after # "None"
                THEN IF rerank_ok
                     THEN /\ retrieve_path' = "reranked"
                          /\ cleaned_context' = preprocess_context(
                                RerankBaai(candidates, score_of,
                                           DefaultThreshold, ServiceTopN))
                     ELSE /\ retrieve_path' = "rerank_failed"
                          /\ cleaned_context' = preprocess_context(
                                RerankFallback(candidates, k))
                ELSE /\ retrieve_path' = "no_rerank"
                     /\ cleaned_context' =
                            preprocess_context(Take(candidates, k))
      /\ ctor_calls' = IF got.constructs
                       THEN Min(ctor_calls + 1, MaxCtorCalls) ELSE ctor_calls
      /\ ctor_failed' = (ctor_failed \/ (got.constructs /\ ~ctor_ok))
      /\ later_calls' = IF ctor_failed
                        THEN Min(later_calls + 1, MaxLaterCalls) ELSE later_calls
      /\ UNCHANGED <<has_doc_id, eval_docs, retrieved_ids, eval_path>>
      /\ UNCHANGED <<rerankVars, searchVars, initVars, chunkVars, embedVars,
                     injectVars, segmentVars, markdownVars, metricsVars,
                     htmlVars, analyzeVars, uploadVars, tableVars,
                   parentVars>>

\* "Map reranked context back to doc IDs"
RECURSIVE MapToDocIds(_, _, _)
MapToDocIds(reranked_context, found, ids) ==
    IF reranked_context = <<>> THEN ids
    ELSE LET hits == {i \in DOMAIN found :
                         found[i].page_content = Head(reranked_context)}
             first == CHOOSE i \in hits : \A j \in hits : i <= j
             doc_id == DocId(found[first], first)
         IN  IF hits = {} \/ doc_id \in Range(ids)
             THEN MapToDocIds(Tail(reranked_context), found, ids)
             ELSE MapToDocIds(Tail(reranked_context), found,
                              Append(ids, doc_id))

\* the except branch of evaluate_all_metrics
EvalFallbackEmpty(found) == <<>>

EvalFallback(found) == [i \in DOMAIN found |-> DocId(found[i], i)]

\* one iteration of the "for test_case in test_queries" loop of
\* RAGEvaluatorWithReranker.evaluate_all_metrics
evaluate_query ==
    \E rerank_ok \in BOOLEAN :
      \E found \in SearchResults(k1, k2, EvalVectorWeight, EvalBm25Weight) :
        LET candidates == get_context(found) IN
        /\ eval_path # "off"
        /\ eval_docs' = found
        /\ IF rerank_ok
           THEN /\ eval_path' = "reranked"
                /\ retrieved_ids' = MapToDocIds(
                      RerankBaai(candidates, score_of, DefaultThreshold,
                                 top_n),
                      found, <<>>)
           ELSE /\ eval_path' = "rerank_failed"
                /\ retrieved_ids' = EvalFallback(found)
        /\ UNCHANGED <<use_reranker, reranker_obj, has_doc_id, top_k,
                       should_rerank, docs, context_candidates,
                       cleaned_context, retrieve_path,
                       sub_search_threw, retrieve_outcome>>
        /\ UNCHANGED notRetrieve

NextRetrieve ==
    \/ retrieve_context
    \/ evaluate_query

SpecRetrieve == InitRetrieve /\ [][NextRetrieve]_vars

----------------------------------------------------------------------------
(* Claims about the rerank fallback                                        *)

\* C5: when rerank raises, retrieve_context returns the (cleaned) texts
\* of the first top_k documents of the search result in their original
\* order, and the evaluator records the ids of the un-reranked documents.
C5_RerankFailureFallsBack ==
    /\ retrieve_path = "rerank_failed" =>
          cleaned_context =
              preprocess_context(
                  [i \in 1..Min(top_k, Len(docs)) |-> docs[i].page_content])
    /\ eval_path = "rerank_failed" =>
          /\ Len(retrieved_ids) = Len(eval_docs)
          /\ \A i \in DOMAIN eval_docs :
                retrieved_ids[i] = DocId(eval_docs[i], i)

\* rerank raised where it would have reordered and filtered the candidates
C5_Witness ==
    /\ retrieve_path = "rerank_failed"
    /\ Len(docs) > top_k
    /\ Len(cleaned_context) = top_k
    /\ score_of[docs[1].page_content] < DefaultThreshold
    /\ score_of[docs[2].page_content] >= DefaultThreshold

C5_WitnessEvaluator ==
    /\ eval_path = "rerank_failed"
    /\ Len(retrieved_ids) >= 2
    /\ score_of[eval_docs[1].page_content] < score_of[eval_docs[2].page_content]

\* C12: when a sub-search throws while retrieve_context serves a query,
\* the failure reaches retrieve_context's caller as an exception, not as a
\* returned context list.
C12_RetrievalFailurePropagates ==
    sub_search_threw => retrieve_outcome = "raised"

\* a sub-search threw and retrieve_context returned the empty list
C12_FailureReturnedAsEmpty ==
    /\ sub_search_threw
    /\ retrieve_outcome = "returned"
    /\ retrieve_path = "error"
    /\ cleaned_context = <<>>

----------------------------------------------------------------------------
(* Process start-up and lazily built resources                             *)
(*   app.py runs initialize_rag_components() to completion and only then   *)
(*   app.run(threaded=True) lets request threads in.  No lock guards       *)
(*   get_rag_service or any RAGService property: a thread can be           *)
(*   pre-empted between the "is None" test and the assignment.             *)

\* request threads the threaded server runs at the same time
Threads == {"t1", "t2"}

Procs == {"startup"} \cup Threads

\* start_up.py does "from utils.rag_service import get_rag_service", the
\* search tool "from backend.utils.rag_service import get_rag_service":
\* the same file loaded under two module names, each with its own
\* _rag_service_instance global
StartupModule == "utils.rag_service"
ToolModule == "backend.utils.rag_service"
Modules == {StartupModule, ToolModule}

Fields == {"_vectorstore", "_splits", "_search_engine", "_reranker", "_llm"}

\* every process can construct at most one RAGService
MaxInstances == Cardinality(Procs)

Call(what) == [op |-> "call", what |-> what]
Build(what) == [op |-> "build", what |-> what]

\* initialize_rag_components: the body of its try block
PreInitProgram ==
    <<Call(StartupModule), Call("_vectorstore"), Call("_splits"),
      Call("_search_engine"), Call("_reranker"), Call("_llm"),
      Call("warmup")>>

\* search_medical_documents: get_rag_service, then retrieve_context, which
\* reads self.search_engine and self.reranker
ToolProgram ==
    <<Call(ToolModule), Call("_search_engine"), Call("_reranker")>>

\* the properties a property reads while it constructs its value
Prerequisites(f) ==
    IF f = "_search_engine"
    THEN <<Call("_vectorstore"), Call("_splits")>>
    ELSE <<>>

\* start-up runs alone; request threads run once the server is up
MayRun(p) == p = "startup" \/ todo["startup"] = <<>>

InPreInit(p) == p = "startup" /\ Call("warmup") \in Range(todo[p])

InitStartup ==
    /\ todo = [p \in Procs |-> IF p = "startup" THEN PreInitProgram
                                                 ELSE ToolProgram]
    /\ rag = [p \in Procs |-> 0]
    /\ rag_service_instance = [m \in Modules |-> 0]
    /\ n_services = 0
    /\ field = [i \in 1..MaxInstances |-> [f \in Fields |-> 0]]
    /\ svc_use_reranker = [i \in 1..MaxInstances |-> TRUE]
    /\ n_built = [f \in Fields |-> 0]
    /\ observed = [r \in Fields \cup {"service"} |-> {}]
    /\ startup_ok = TRUE

InitInit == InitStartup /\ IdleSearch /\ IdleRerank /\ IdleRetrieve /\ IdleChunk /\ IdleEmbed /\ IdleInject /\ IdleSegment /\ IdleMarkdown /\ IdleMetrics /\ IdleHtml /\ IdleAnalyze /\ IdleUpload /\ IdleCtor /\ IdleTable /\ IdleParent

\* get_rag_service: "if _rag_service_instance is None"
get_rag_service(p) ==
    /\ MayRun(p)
    /\ todo[p] # <<>>
    /\ Head(todo[p]).op = "call"
    /\ Head(todo[p]).what \in Modules
    /\ LET m == Head(todo[p]).what IN
       IF rag_service_instance[m] = 0
       THEN /\ todo' = [todo EXCEPT ![p] = <<Build(m)>> \o Tail(@)]
            /\ UNCHANGED <<rag, observed>>
       ELSE /\ todo' = [todo EXCEPT ![p] = Tail(@)]
            /\ rag' = [rag EXCEPT ![p] = rag_service_instance[m]]
            /\ observed' = [observed EXCEPT
                              !["service"] = @ \cup {rag_service_instance[m]}]
    /\ UNCHANGED <<rag_service_instance, n_services, field,
                   svc_use_reranker, n_built, startup_ok>>
    /\ UNCHANGED notInit

\* get_rag_service: "_rag_service_instance = RAGService(...)" and return
new_RAGService(p) ==
    /\ MayRun(p)
    /\ todo[p] # <<>>
    /\ Head(todo[p]).op = "build"
    /\ Head(todo[p]).what \in Modules
    /\ LET m == Head(todo[p]).what
           i == n_services + 1
       IN
       /\ n_services' = i
       /\ rag_service_instance' = [rag_service_instance EXCEPT ![m] = i]
       /\ rag' = [rag EXCEPT ![p] = i]
       /\ observed' = [observed EXCEPT !["service"] = @ \cup {i}]
       /\ todo' = [todo EXCEPT ![p] = Tail(@)]
    /\ UNCHANGED <<field, svc_use_reranker, n_built, startup_ok>>
    /\ UNCHANGED notInit

\* a lazy property: "if self._x is None" (for the reranker: "and
\* self.use_reranker"), else "return self._x"
lazy_property(p) ==
    /\ MayRun(p)
    /\ todo[p] # <<>>
    /\ Head(todo[p]).op = "call"
    /\ Head(todo[p]).what \in Fields
    /\ LET f == Head(todo[p]).what
           i == rag[p]
           must_build == /\ field[i][f] = 0
                         /\ f = "_reranker" => svc_use_reranker[i]
       IN
       IF must_build
       THEN /\ todo' = [todo EXCEPT
                          ![p] = Prerequisites(f) \o <<Build(f)>> \o Tail(@)]
            /\ UNCHANGED observed
       ELSE /\ todo' = [todo EXCEPT ![p] = Tail(@)]
            /\ observed' = [observed EXCEPT
                              ![f] = @ \cup ({field[i][f]} \ {0})]
    /\ UNCHANGED <<rag, rag_service_instance, n_services, field,
                   svc_use_reranker, n_built, startup_ok>>
    /\ UNCHANGED notInit

\* a lazy property: "self._x = X(...)" and "return self._x".  A failed
\* Reranker(...) is caught inside the property (use_reranker turns False);
\* any other failure propagates to the caller's except clause, which ends
\* pre-initialisation resp. the request.
construct(p) ==
    /\ MayRun(p)
    /\ todo[p] # <<>>
    /\ Head(todo[p]).op = "build"
    /\ Head(todo[p]).what \in Fields
    /\ LET f == Head(todo[p]).what
           i == rag[p]
       IN
       \E ok \in BOOLEAN :
          IF ok
          THEN /\ n_built' = [n_built EXCEPT ![f] = @ + 1]
               /\ field' = [field EXCEPT ![i][f] = n_built[f] + 1]
               /\ observed' = [observed EXCEPT ![f] = @ \cup {n_built[f] + 1}]
               /\ todo' = [todo EXCEPT ![p] = Tail(@)]
               /\ UNCHANGED <<svc_use_reranker, startup_ok>>
          ELSE IF f = "_reranker"
          THEN /\ svc_use_reranker' = [svc_use_reranker EXCEPT ![i] = FALSE]
               /\ todo' = [todo EXCEPT ![p] = Tail(@)]
               /\ UNCHANGED <<n_built, field, observed, startup_ok>>
          ELSE /\ todo' = [todo EXCEPT ![p] = <<>>]
               /\ startup_ok' = (startup_ok /\ ~InPreInit(p))
               /\ UNCHANGED <<n_built, field, observed, svc_use_reranker>>
    /\ UNCHANGED <<rag, rag_service_instance, n_services>>
    /\ UNCHANGED notInit

\* initialize_rag_components: the agent's warm-up query, which the agent
\* may or may not answer through the search tool
warmup(p) ==
    /\ MayRun(p)
    /\ todo[p] # <<>>
    /\ Head(todo[p]) = Call("warmup")
    /\ \E uses_tool \in BOOLEAN :
          todo' = [todo EXCEPT ![p] = IF uses_tool THEN ToolProgram ELSE <<>>]
    /\ UNCHANGED <<rag, rag_service_instance, n_services, field,
                   svc_use_reranker, n_built, observed, startup_ok>>
    /\ UNCHANGED notInit

NextInit ==
    \E p \in Procs :
       \/ get_rag_service(p)
       \/ new_RAGService(p)
       \/ lazy_property(p)
       \/ construct(p)
       \/ warmup(p)

SpecInit == InitInit /\ [][NextInit]_vars

\* p is inside a first construction of what
Constructing(p, what) ==
    /\ todo[p] # <<>>
    /\ Head(todo[p]) = Build(what)

\* C6: each heavy resource (the RAGService singleton, vector store, BM25
\* search engine, reranker, LLM client) is constructed at most once per
\* process, every caller observes the same handle, and no two callers are
\* inside a first construction of the same resource at the same time.
\* (The corpus splits are not among the resources the statement lists.)
C6_BuiltOnceNoRace ==
    /\ n_services <= 1
    /\ \A f \in Fields \ {"_splits"} : n_built[f] <= 1
    /\ \A r \in DOMAIN observed : Cardinality(observed[r]) <= 1
    /\ \A p, q \in Procs :
          p # q =>
             \A what \in Modules \cup Fields :
                ~(Constructing(p, what) /\ Constructing(q, what))

\* after a failed pre-initialisation two request threads are inside the
\* construction of the service singleton at the same time
C6_RaceReached ==
    /\ ~startup_ok
    /\ Constructing("t1", ToolModule)
    /\ Constructing("t2", ToolModule)

----------------------------------------------------------------------------
(* Parent/child chunker: _find_sentence_boundary, _create_child_chunks,    *)
(* _merge_small_children.  Offsets are Python's 0-based offsets.           *)

\* s[a:b] with Python's rules for negative and out-of-range offsets
SliceIndex(x, n) == IF x < 0 THEN Max(x + n, 0) ELSE Min(x, n)

PySlice(s, a, b) ==
    LET lo == SliceIndex(a, Len(s))
        hi == SliceIndex(b, Len(s))
    IN  IF lo >= hi THEN <<>> ELSE SubSeq(s, lo + 1, hi)

\* s[a:] and s[:b]
PyFrom(s, a) == PySlice(s, a, Len(s))
PyTo(s, b) == PySlice(s, 0, b)

\* the character at 0-based offset p, "" outside the string
CharAt(t, p) == IF p >= 0 /\ p < Len(t) THEN t[p + 1] ELSE ""

\* str.rfind of a single character: the last offset, or -1
RFind(t, c) ==
    LET at == {p \in 0..(Len(t) - 1) : CharAt(t, p) = c}
    IN  IF at = {} THEN -1
        ELSE CHOOSE p \in at : \A q \in at : q <= p

\* int(max_pos * 0.6); for these magnitudes the float product truncates
\* to the exact floor of 6 * max_pos / 10
AcceptTenths == 6
MinAcceptable(max_pos) == (max_pos * AcceptTenths) \div 10

\* max_pos - 300: how far back a sentence end is looked for
SentenceLookback == 300

\* max_pos - 100: how far back a bare line break is accepted
LineBreakWindow == 100

\* the capitals of the first sentence pattern's character class, and the
\* [A-Z] of its look-behind, by a representative
Capitals == {"A"}
AsciiCapitals == {"A"}

\* re match of one pattern at offset p of t: the length matched, 0 if none
\*   para            \n\n
\*   period_capital  (?<![A-Z])\. [A-Z...]
\*   period_newline  \.\n
\*   bang_space      [!?] (followed by a space)
MatchLen(pattern, t, p) ==
    CASE pattern = "para" ->
            IF CharAt(t, p) = "\n" /\ CharAt(t, p + 1) = "\n" THEN 2 ELSE 0
      [] pattern = "period_capital" ->
            IF /\ CharAt(t, p) = "."
               /\ CharAt(t, p + 1) = " "
               /\ CharAt(t, p + 2) \in Capitals
               /\ CharAt(t, p - 1) \notin AsciiCapitals
            THEN 3 ELSE 0
      [] pattern = "period_newline" ->
            IF CharAt(t, p) = "." /\ CharAt(t, p + 1) = "\n" THEN 2 ELSE 0
      [] pattern = "bang_space" ->
            IF CharAt(t, p) \in {"!", "?"} /\ CharAt(t, p + 1) = " "
            THEN 2 ELSE 0

\* list(re.finditer(pattern, t))[-1].end(): matches are taken left to
\* right without overlap (the scan resumes at the end of a match); -1
\* when there is none
RECURSIVE LastMatchEndFrom(_, _, _, _)
LastMatchEndFrom(pattern, t, p, last) ==
    LET at == {q \in p..(Len(t) - 1) : MatchLen(pattern, t, q) > 0} IN
    IF at = {} THEN last
    ELSE LET q == CHOOSE x \in at : \A y \in at : x <= y
             e == q + MatchLen(pattern, t, q)
         IN  LastMatchEndFrom(pattern, t, e, e)

LastMatchEnd(pattern, t) ==
    CHOOSE e \in {LastMatchEndFrom(pt, s, 0, -1) : pt \in {pattern}, s \in {t}} :
        TRUE

sentence_patterns == <<"period_capital", "period_newline", "bang_space">>

\* the first pattern, in list order, that matches in window
FirstMatching(window) ==
    LET hits == {k \in DOMAIN sentence_patterns :
                    LastMatchEnd(sentence_patterns[k], window) >= 0}
    IN  IF hits = {} THEN 0
        ELSE CHOOSE k \in hits : \A j \in hits : k <= j

\* the same with a line-break branch that takes any line break found
find_sentence_boundary_any_line_break(text, max_pos) ==
    LET min_acceptable == MinAcceptable(max_pos)
        last_para == LastMatchEnd("para", PyTo(text, max_pos))
        search_start == Max(min_acceptable, max_pos - SentenceLookback)
        window == PySlice(text, search_start, max_pos)
        k == FirstMatching(window)
        newline_pos == RFind(PyTo(text, max_pos), "\n")
    IN  IF last_para >= 0 /\ last_para >= min_acceptable
        THEN [pos |-> last_para, complete |-> TRUE]
        ELSE IF k > 0
        THEN [pos |-> search_start
                        + LastMatchEnd(sentence_patterns[k], window),
              complete |-> TRUE]
        ELSE IF newline_pos >= 0
        THEN [pos |-> newline_pos, complete |-> FALSE]
        ELSE [pos |-> max_pos, complete |-> FALSE]

\* _find_sentence_boundary(text, max_pos) -> (position, has_complete_sentence)
find_sentence_boundary(text, max_pos) ==
    LET min_acceptable == MinAcceptable(max_pos)
        last_para == LastMatchEnd("para", PyTo(text, max_pos))
        search_start == Max(min_acceptable, max_pos - SentenceLookback)
        window == PySlice(text, search_start, max_pos)
        k == FirstMatching(window)
        newline_pos == RFind(PyTo(text, max_pos), "\n")
    IN  IF last_para >= 0 /\ last_para >= min_acceptable
        THEN [pos |-> last_para, complete |-> TRUE]
        ELSE IF k > 0
        THEN [pos |-> search_start
                        + LastMatchEnd(sentence_patterns[k], window),
              complete |-> TRUE]
        ELSE IF newline_pos > max_pos - LineBreakWindow
        THEN [pos |-> newline_pos, complete |-> FALSE]
        ELSE [pos |-> max_pos, complete |-> FALSE]

\* parent_header and the "[header] " prefix of every child text
ParentHeader == <<"h">>
HeaderPrefix == <<"[">> \o ParentHeader \o <<"]", " ">>

\* the dict appended for one child (keywords, a function of text alone, and
\* the fields copied from the parent are left out)
Child(id, chunk_text, total, complete) ==
    [id |-> id,
     text |-> chunk_text,
     chunk_index |-> id,
     total_children |-> total,
     char_count |-> Len(chunk_text),
     has_complete_sentences |-> complete]

\* parameter settings and parent texts.  A parent text is three runs of
\* letters joined by two separators.
ChildMaxSizes == {110}
ChildMinSizes == {50, 90}
ChildOverlaps == {10}
RunLengths == {30, 80}
TailLengths == {20, 100}
Separators ==
    {<<"\n", "\n">>, <<".", " ", "A">>, <<".", "\n">>, <<"!", " ">>,
     <<"\n">>, <<" ", " ">>}

ParentTexts ==
    {Rep("a", n1) \o s1 \o Rep("a", n2) \o s2 \o Rep("a", n3) :
        n1 \in RunLengths, s1 \in Separators,
        n2 \in RunLengths, s2 \in Separators, n3 \in TailLengths}

InitChunkInputs ==
    /\ parent_text \in ParentTexts
    /\ child_max_size \in ChildMaxSizes
    /\ child_min_size \in ChildMinSizes
    /\ child_overlap \in ChildOverlaps
    /\ start = 0
    /\ child_id = 0
    /\ children = <<>>
    /\ windows = <<>>
    /\ produced = <<>>
    /\ merged = <<>>
    /\ merge_i = 0
    /\ returned = <<>>
    /\ chunk_pc = "enter"

InitChunk ==
    InitChunkInputs /\ IdleSearch /\ IdleRerank /\ IdleRetrieve /\ IdleInit
    /\ IdleEmbed /\ IdleInject /\ IdleSegment /\ IdleMarkdown /\ IdleMetrics /\ IdleHtml /\ IdleAnalyze /\ IdleUpload /\ IdleCtor /\ IdleTable /\ IdleParent

\* _create_child_chunks, small parent: one child, returned at once
single_child ==
    /\ chunk_pc = "enter"
    /\ Len(parent_text) <= child_max_size
    /\ children' = <<Child(0, HeaderPrefix \o parent_text, 1, TRUE)>>
    /\ returned' = children'
    /\ chunk_pc' = "done"
    /\ UNCHANGED <<parent_text, child_max_size, child_min_size, child_overlap,
                   start, child_id, windows, produced, merged, merge_i>>
    /\ UNCHANGED notChunk

\* _create_child_chunks, large parent: start = 0, child_id = 0
split_begin ==
    /\ chunk_pc = "enter"
    /\ Len(parent_text) > child_max_size
    /\ start' = 0
    /\ child_id' = 0
    /\ chunk_pc' = IF 0 < Len(parent_text) THEN "split" ELSE "count"
    /\ UNCHANGED <<parent_text, child_max_size, child_min_size, child_overlap,
                   children, windows, produced, merged, merge_i, returned>>
    /\ UNCHANGED notChunk

\* one iteration of "while start < len(parent_text)".  windows records the
\* cut of every iteration: it is history, not a program variable.  rest is
\* parent_text[start:]; it, found and chunk_content are bound by \E over a
\* one-element set so that each is computed once per step.
window_step ==
    /\ chunk_pc = "split"
    /\ \E rest \in {PyFrom(parent_text, start)} :
       \E found \in {find_sentence_boundary(rest, child_max_size)} :
       LET whole == start + child_max_size
           final == ~(whole < Len(parent_text))
           end == IF final THEN whole ELSE start + found.pos
           is_complete == IF final THEN TRUE ELSE found.complete
           next_start == end - child_overlap
       IN
       \E chunk_content \in {Strip(PySlice(parent_text, start, end))} :
       /\ IF chunk_content # <<>>
          THEN /\ children' = Append(children,
                                 Child(child_id, HeaderPrefix \o chunk_content,
                                       -1, is_complete))
               /\ child_id' = child_id + 1
          ELSE UNCHANGED <<children, child_id>>
       /\ windows' = Append(windows,
                            [w_start |-> start, w_end |-> end,
                             final |-> final, complete |-> is_complete,
                             content |-> chunk_content])
       /\ start' = next_start
       /\ chunk_pc' = IF next_start < Len(parent_text) THEN "split"
                                                       ELSE "count"
    /\ UNCHANGED <<parent_text, child_max_size, child_min_size, child_overlap,
                   produced, merged, merge_i, returned>>
    /\ UNCHANGED notChunk

\* "child['total_children'] = total" for every child, then the entry of
\* _merge_small_children: a list of at most one child is returned as it is.
\* produced keeps the children as the window loop left them (history).
count_children ==
    /\ chunk_pc = "count"
    /\ LET total == Len(children)
           counted == [k \in DOMAIN children |->
                          [children[k] EXCEPT !.total_children = total]]
       IN
       /\ children' = counted
       /\ produced' = counted
       /\ IF total <= 1
          THEN /\ returned' = counted
               /\ chunk_pc' = "done"
          ELSE /\ returned' = returned
               /\ chunk_pc' = "merge"
    /\ merged' = <<>>
    /\ merge_i' = 0
    /\ UNCHANGED <<parent_text, child_max_size, child_min_size, child_overlap,
                   start, child_id, windows>>
    /\ UNCHANGED notChunk

\* one iteration of "while i < len(children)" in _merge_small_children:
\* the new values of children, merged and i.  In the merge branch the dict
\* children[i] is updated in place and i skips the next child; nothing is
\* appended to merged.
MergeStepAppendAll(cs, idx, acc, min_size) ==
    [children |-> cs, merged |-> Append(acc, cs[idx + 1]), i |-> idx + 1]

MergeStep(cs, idx, acc, min_size) ==
    LET current == cs[idx + 1] IN
    IF current.char_count < min_size /\ idx < Len(cs) - 1
    THEN LET next_child == cs[idx + 2]
             text == current.text \o <<" ">> \o next_child.text
         IN  [children |-> [cs EXCEPT ![idx + 1] =
                               [current EXCEPT
                                  !.text = text,
                                  !.char_count = Len(text),
                                  !.has_complete_sentences =
                                      next_child.has_complete_sentences]],
              merged |-> acc,
              i |-> idx + 2]
    ELSE [children |-> cs, merged |-> Append(acc, current), i |-> idx + 1]

merge_step ==
    /\ chunk_pc = "merge"
    /\ merge_i < Len(children)
    /\ LET after == MergeStep(children, merge_i, merged, child_min_size) IN
       /\ children' = after.children
       /\ merged' = after.merged
       /\ merge_i' = after.i
    /\ UNCHANGED <<parent_text, child_max_size, child_min_size, child_overlap,
                   start, child_id, windows, produced, returned, chunk_pc>>
    /\ UNCHANGED notChunk

\* the re-index loop of _merge_small_children
ReindexNone(ms) == ms

Reindex(ms) ==
    [k \in DOMAIN ms |->
        [ms[k] EXCEPT !.chunk_index = k - 1, !.total_children = Len(ms)]]

\* _merge_small_children: loop exit, re-index, return
merge_return ==
    /\ chunk_pc = "merge"
    /\ ~(merge_i < Len(children))
    /\ merged' = Reindex(merged)
    /\ returned' = merged'
    /\ chunk_pc' = "done"
    /\ UNCHANGED <<parent_text, child_max_size, child_min_size, child_overlap,
                   start, child_id, children, windows, produced, merge_i>>
    /\ UNCHANGED notChunk

NextChunk ==
    \/ single_child
    \/ split_begin
    \/ window_step
    \/ count_children
    \/ merge_step
    \/ merge_return

SpecChunk == InitChunk /\ [][NextChunk]_vars

Undersized(c) == c.char_count < child_min_size

\* C7: every returned child except possibly the last one of the parent has
\* char_count >= child_min_size.
C7_OnlyLastMayBeUndersized ==
    chunk_pc = "done" =>
       \A k \in 1..(Len(returned) - 1) : ~Undersized(returned[k])

\* the merge pass met an undersized child with a successor, and what it
\* returns has several children, the last of them undersized
C7_Witness ==
    /\ chunk_pc = "done"
    /\ \E k \in 1..(Len(produced) - 1) : Undersized(produced[k])
    /\ Len(returned) >= 2
    /\ Undersized(returned[Len(returned)])

\* C8: the chunk_index values of the returned children are 0, 1, ..., n-1
\* in list order and every total_children is n, the number returned.
C8_ContiguousIndexes ==
    chunk_pc = "done" =>
       \A k \in DOMAIN returned :
          /\ returned[k].chunk_index = k - 1
          /\ returned[k].total_children = Len(returned)

\* a child came back from the merge pass at another position than the
\* window loop gave it
C8_Witness ==
    /\ chunk_pc = "done"
    /\ \E k \in DOMAIN returned :
          /\ returned[k].id # returned[k].chunk_index
          /\ produced[returned[k].id + 1].total_children # Len(returned)

\* the text of produced[k] is part of returned child r, on its own or
\* merged with a neighbour
Carries(r, k) ==
    \/ r.text = produced[k].text
    \/ /\ k < Len(produced)
       /\ r.text = produced[k].text \o <<" ">> \o produced[k + 1].text
    \/ /\ k > 1
       /\ r.text = produced[k - 1].text \o <<" ">> \o produced[k].text

\* C9: an undersized child with a next sibling comes back as one child whose
\* text is its own text, a space and the sibling's text, flagged as the
\* sibling is; merging removes no child's text and leaves a parent that had
\* children with at least one.
C9_MergeKeepsEveryText ==
    chunk_pc = "done" =>
       /\ produced # <<>> => returned # <<>>
       /\ \A k \in DOMAIN produced :
             \E j \in DOMAIN returned : Carries(returned[j], k)
       /\ \A k \in 1..(Len(produced) - 1) :
             (Undersized(produced[k]) /\ (k = 1 \/ ~Undersized(produced[k - 1])))
                => \E j \in DOMAIN returned :
                      /\ returned[j].text =
                            produced[k].text \o <<" ">> \o produced[k + 1].text
                      /\ returned[j].has_complete_sentences =
                            produced[k + 1].has_complete_sentences

\* the merge pass took its merge branch: the first produced child is
\* undersized and has a next sibling
C9_MergeBranchTaken ==
    /\ chunk_pc = "done"
    /\ Len(produced) >= 2
    /\ Undersized(produced[1])

\* where a window was cut, read off parent_text
AtParagraphBreak(e) ==
    CharAt(parent_text, e - 1) = "\n" /\ CharAt(parent_text, e - 2) = "\n"

AfterSentenceEnd(e) ==
    LET before == RStrip(PyTo(parent_text, e)) IN
    before # <<>> /\ before[Len(before)] \in {".", "!", "?"}

AtLineBreak(e) == CharAt(parent_text, e) = "\n"

AtWindowBoundary(w) == w.w_end = w.w_start + child_max_size

\* C10: a non-final window is flagged complete exactly when its cut is at a
\* blank-line paragraph break or directly after sentence-final punctuation,
\* and is not flagged when the cut is a bare line break or a hard cut at
\* the window boundary; the final window is always flagged complete.
C10_FlagTellsHowTheCutWasMade ==
    \A k \in DOMAIN windows :
       LET w == windows[k] IN
       IF w.final
       THEN w.complete
       ELSE /\ w.complete =>
                  AtParagraphBreak(w.w_end) \/ AfterSentenceEnd(w.w_end)
            /\ ~w.complete => AtLineBreak(w.w_end) \/ AtWindowBoundary(w)

\* a non-final window ends on the capital letter that opens the next
\* sentence and is flagged complete
C10_CutInsideNextSentence ==
    \E k \in DOMAIN windows :
       /\ ~windows[k].final
       /\ windows[k].complete
       /\ CharAt(parent_text, windows[k].w_end - 1) \in Capitals
       /\ CharAt(parent_text, windows[k].w_end - 3) = "."

----------------------------------------------------------------------------
(* Embedding.create_embedding: batched upload of the corpus to the index   *)

\* bounds on the number of splits and on batch_size
MaxSplits == 5
MaxBatchSize == 3

\* bound on the number of add_documents calls
MaxAdds == 1

\* create_embedding(self, splits, batch_size=100, namespace="")
DefaultBatchSize == 100

\* the split at 0-based position k of the list being uploaded: the list
\* given to create_embedding, or the one given to the n-th add_documents
Split(k) == <<"split", added_calls, k>>

\* (len(splits) + batch_size - 1) // batch_size
TotalBatches(n, b) == (n + b - 1) \div b

\* the vectors built for splits[i:i+batch_size]: ids doc_{i+j}
BatchVectors(i, b, n) ==
    [id \in i..(Min(i + b, n) - 1) |-> Split(id)]

\* index.upsert: vectors with a known id replace the stored ones
Upsert(stored, vectors) ==
    [id \in (DOMAIN stored) \cup (DOMAIN vectors) |->
        IF id \in DOMAIN vectors THEN vectors[id] ELSE stored[id]]

\* the two counters after one batch
CountBatchForgetsFailure(counts, ok) ==
    IF ok THEN [successful |-> counts.successful + 1, failed |-> counts.failed]
          ELSE counts

CountBatch(counts, ok) ==
    IF ok THEN [successful |-> counts.successful + 1, failed |-> counts.failed]
          ELSE [successful |-> counts.successful, failed |-> counts.failed + 1]

InitEmbedInputs ==
    /\ n_splits \in 0..MaxSplits
    /\ batch_size \in 1..MaxBatchSize
    /\ total_batches = TotalBatches(n_splits, batch_size)
    /\ embed_i = 0
    /\ successful_batches = 0
    /\ failed_batches = 0
    /\ attempts = <<>>
    /\ index_vectors = <<>>
    /\ embed_pc = "loop"

InitEmbed ==
    InitEmbedInputs /\ IdleSearch /\ IdleRerank /\ IdleRetrieve /\ IdleInit
    /\ IdleChunk /\ IdleInject /\ IdleSegment /\ IdleMarkdown /\ IdleMetrics /\ IdleHtml /\ IdleAnalyze /\ IdleUpload /\ IdleCtor /\ IdleTable /\ IdleParent

\* one iteration of "for i in range(0, len(splits), batch_size)".
\*   outcome  what the try block does: it completes, embed_documents
\*            raises, or upsert raises
\*   stored   whether an upsert that raised had stored its vectors
\* attempts is history: the offset and outcome of every iteration.
embed_batch ==
    /\ embed_pc = "loop"
    /\ embed_i < n_splits
    /\ \E outcome \in {"ok", "embed_raises", "upsert_raises"},
          stored \in BOOLEAN :
          LET ok == outcome = "ok"
              counts == CountBatch([successful |-> successful_batches,
                                    failed |-> failed_batches], ok)
          IN
          /\ outcome # "upsert_raises" => stored = (outcome = "ok")
          /\ index_vectors' =
                IF stored
                THEN Upsert(index_vectors,
                            BatchVectors(embed_i, batch_size, n_splits))
                ELSE index_vectors
          /\ successful_batches' = counts.successful
          /\ failed_batches' = counts.failed
          /\ attempts' = Append(attempts, [offset |-> embed_i, ok |-> ok])
    /\ embed_i' = embed_i + batch_size
    /\ UNCHANGED <<n_splits, batch_size, total_batches, embed_pc>>
    /\ UNCHANGED notEmbed

\* after the loop: index.describe_index_stats(), outside any try block,
\* then "return self"
embed_finish ==
    /\ embed_pc = "loop"
    /\ ~(embed_i < n_splits)
    /\ \E stats_ok \in BOOLEAN :
          embed_pc' = IF stats_ok THEN "returned" ELSE "raised"
    /\ UNCHANGED <<n_splits, batch_size, total_batches, embed_i,
                   successful_batches, failed_batches, attempts,
                   index_vectors>>
    /\ UNCHANGED notEmbed

\* add_documents(new_splits): create_embedding(new_splits, namespace) on
\* the same index, up to the start of its loop.  first_upload is history:
\* what the index held when the call was made.
add_documents ==
    /\ embed_pc = "returned"
    /\ added_calls < MaxAdds
    /\ \E n \in 0..MaxSplits :
          /\ n_splits' = n
          /\ total_batches' = TotalBatches(n, DefaultBatchSize)
    /\ batch_size' = DefaultBatchSize
    /\ embed_i' = 0
    /\ successful_batches' = 0
    /\ failed_batches' = 0
    /\ attempts' = <<>>
    /\ embed_pc' = "loop"
    /\ added_calls' = added_calls + 1
    /\ first_upload' = index_vectors
    /\ UNCHANGED index_vectors
    /\ UNCHANGED <<searchVars, rerankVars, retrieveVars, initVars, chunkVars,
                   injectVars, segmentVars, markdownVars, metricsVars,
                   htmlVars, analyzeVars, ctorVars, tableVars,
                   parentVars>>

NextEmbed ==
    \/ embed_batch
    \/ embed_finish
    \/ add_documents

SpecEmbed == InitEmbed /\ [][NextEmbed]_vars

\* the for loop is not interrupted: an iteration that can run does run
SpecEmbedFair == SpecEmbed /\ WF_vars(NextEmbed)

\* the batch loop has gone through range(0, len(splits), batch_size)
LoopOver == embed_pc # "idle" /\ ~(embed_i < n_splits)

\* what holds at every point of the upload
BatchesInOrderOnce ==
    /\ \A k \in DOMAIN attempts : attempts[k].offset = (k - 1) * batch_size
    /\ successful_batches + failed_batches = Len(attempts)
    /\ successful_batches = Cardinality({k \in DOMAIN attempts : attempts[k].ok})
    /\ \A k \in DOMAIN attempts :
          attempts[k].ok =>
             \A id \in attempts[k].offset..
                        (Min(attempts[k].offset + batch_size, n_splits) - 1) :
                id \in DOMAIN index_vectors /\ index_vectors[id] = Split(id)
    /\ LoopOver =>
          /\ successful_batches + failed_batches = total_batches
          /\ total_batches * batch_size >= n_splits
          /\ n_splits > 0 => (total_batches - 1) * batch_size < n_splits
          /\ n_splits = 0 => total_batches = 0

----------------------------------------------------------------------------
(* HeaderInjector.inject_headers.  A headers list is an object on the heap *)
(* (its index in heap); a chunk holds a reference to it, 0 when the chunk  *)
(* has no "headers" key.                                                   *)

\* bounds on the number of chunks and of headers lists
MaxChunks == 2
MaxLists == 2

\* HeaderInjector(separator=" | ")
Separator == <<" ", "|", " ">>

\* headers lists (the "text" of each markdown header) and chunk texts
HeaderLists == {<<>>, <<"a">>, <<"a", "b">>}
ChunkTexts == {<<"t">>, <<"[", "a", "]", " ", "t">>}

\* separator.join([h["text"] for h in headers])
RECURSIVE Join(_, _)
Join(sep, hs) ==
    IF hs = <<>> THEN <<>>
    ELSE IF Len(hs) = 1 THEN <<hs[1]>>
    ELSE <<hs[1]>> \o sep \o Join(sep, Tail(hs))

\* _build_header_path
build_header_path(headers) == Join(Separator, headers)

\* the list a chunk's "headers" key refers to
HeadersOf(h, ref) == IF ref = 0 THEN <<>> ELSE h[ref]

\* the text of one enriched chunk
EnrichedText(header_path, text) ==
    IF header_path # <<>>
    THEN <<"[">> \o header_path \o <<"]", " ">> \o text
    ELSE text

\* the reference stored under "headers": chunk.get("headers", []) hands
\* back the chunk's own list, or a new empty list when the key is missing
HeadersRef(chunks, h, k) ==
    IF chunks[k].headers = 0
    THEN Len(h) + Cardinality({j \in 1..k : chunks[j].headers = 0})
    ELSE chunks[k].headers

\* inject_headers(chunks) on heap h: the returned list
Enriched(chunks, h) ==
    [k \in DOMAIN chunks |->
        LET header_path == build_header_path(HeadersOf(h, chunks[k].headers))
        IN  [text |-> EnrichedText(header_path, chunks[k].text),
             original_text |-> chunks[k].text,
             headers |-> HeadersRef(chunks, h, k),
             header_path |-> header_path]]

\* the heap after inject_headers(chunks): one new empty list per chunk
\* without a "headers" key
HeapAfter(chunks, h) ==
    h \o [j \in 1..Cardinality({k \in DOMAIN chunks : chunks[k].headers = 0})
             |-> <<>>]

\* a chunk list by value: texts and the contents of the headers lists
ByValue(chunks, h) ==
    [k \in DOMAIN chunks |->
        [text |-> chunks[k].text,
         has_headers |-> chunks[k].headers # 0,
         headers |-> HeadersOf(h, chunks[k].headers)]]

InitInjectInputs ==
    /\ heap \in SeqsUpTo(HeaderLists, MaxLists)
    /\ in_chunks \in SeqsUpTo([text : ChunkTexts, headers : 0..Len(heap)],
                              MaxChunks)
    /\ in_snapshot = ByValue(in_chunks, heap)
    /\ out_once = <<>>
    /\ out_twice = <<>>
    /\ inject_pc = "call"

InitInject ==
    InitInjectInputs /\ IdleSearch /\ IdleRerank /\ IdleRetrieve /\ IdleInit
    /\ IdleChunk /\ IdleEmbed
    /\ IdleSegment /\ IdleMarkdown /\ IdleMetrics /\ IdleHtml /\ IdleAnalyze /\ IdleUpload /\ IdleCtor /\ IdleTable /\ IdleParent

\* enriched = injector.inject_headers(chunks)
inject_headers ==
    /\ inject_pc = "call"
    /\ out_once' = Enriched(in_chunks, heap)
    /\ heap' = HeapAfter(in_chunks, heap)
    /\ inject_pc' = "once"
    /\ UNCHANGED <<in_chunks, in_snapshot, out_twice>>
    /\ UNCHANGED notInject

\* injector.inject_headers(enriched): the function applied to its output
inject_headers_again ==
    /\ inject_pc = "once"
    /\ out_twice' = Enriched(out_once, heap)
    /\ heap' = HeapAfter(out_once, heap)
    /\ inject_pc' = "twice"
    /\ UNCHANGED <<in_chunks, in_snapshot, out_once>>
    /\ UNCHANGED notInject

\* the caller appends a header to the headers list of one returned chunk
mutate_output_headers ==
    /\ inject_pc = "once"
    /\ \E k \in DOMAIN out_once :
          heap' = [heap EXCEPT ![out_once[k].headers] = Append(@, "z")]
    /\ inject_pc' = "mutated"
    /\ UNCHANGED <<in_chunks, in_snapshot, out_once, out_twice>>
    /\ UNCHANGED notInject

NextInject ==
    \/ inject_headers
    \/ inject_headers_again
    \/ mutate_output_headers

SpecInject == InitInject /\ [][NextInject]_vars

\* C15: inject_headers applied to its own output gives chunks with the same
\* text, original_text, headers and header_path as applying it once.
C15_InjectIdempotent ==
    inject_pc = "twice" =>
       /\ Len(out_twice) = Len(out_once)
       /\ \A k \in DOMAIN out_once :
             /\ out_twice[k].text = out_once[k].text
             /\ out_twice[k].original_text = out_once[k].original_text
             /\ HeadersOf(heap, out_twice[k].headers)
                   = HeadersOf(heap, out_once[k].headers)
             /\ out_twice[k].header_path = out_once[k].header_path

\* the second application prepended the header prefix a second time
C15_PrefixTwice ==
    /\ inject_pc = "twice"
    /\ \E k \in DOMAIN out_once :
          /\ out_once[k].header_path # <<>>
          /\ out_twice[k].text
                = <<"[">> \o out_once[k].header_path \o <<"]", " ">>
                     \o out_once[k].text
          /\ out_twice[k].original_text = out_once[k].text

\* C16: inject_headers leaves its input chunks as they were, original_text
\* of every output is the input text, and the headers list of every output
\* is an object of its own: neither an input chunk's list nor another
\* output's, so that mutating it changes no input chunk.
C16_NoMutationNoAlias ==
    inject_pc \in {"once", "mutated"} =>
       /\ ByValue(in_chunks, heap) = in_snapshot
       /\ \A k \in DOMAIN out_once :
             /\ out_once[k].original_text = in_chunks[k].text
             /\ \A j \in DOMAIN in_chunks :
                   out_once[k].headers # in_chunks[j].headers
             /\ \A j \in DOMAIN out_once :
                   j # k => out_once[j].headers # out_once[k].headers

\* a header appended to an output's list shows up in the input chunk
C16_InputChangedThroughOutput ==
    /\ inject_pc = "mutated"
    /\ ByValue(in_chunks, heap) # in_snapshot

----------------------------------------------------------------------------
(* VietnameseSegmenter: __init__, segment, _segment_with_underthesea,      *)
(* _segment_fallback.  Strings are sequences of characters; a Vietnamese   *)
(* letter is one character, written in VIQR ("dd", "ee", "uw", "oor").     *)

\* self.medical_compounds, in the order the source lists them
medical_compounds ==
   <<
      <<"dd", "a", "u", "_", "dd", "aaf", "u">>,
      <<"c", "a", "o", "_", "h", "u", "y", "ees", "t", "_", "as", "p">>,
      <<"t", "i", "eer", "u", "_", "dd", "uw", "owf", "n", "g">>,
      <<"t", "a", "i", "_", "b", "i", "ees", "n">>,
      <<"n", "h", "oof", "i", "_", "m", "as", "u">>,
      <<"u", "n", "g", "_", "t", "h", "uw">>,
      <<"v", "i", "ee", "m", "_", "g", "a", "n">>,
      <<"v", "i", "ee", "m", "_", "p", "h", "oor", "i">>,
      <<"s", "oos", "t", "_", "x", "u", "aas", "t", "_", "h", "u", "y", "ees", "t">>,
      <<"s", "u", "y", "_", "t", "h", "aaj", "n">>,
      <<"dd", "ooj", "t", "_", "q", "u", "yj">>,
      <<"r", "oos", "i", "_", "l", "o", "aj", "n", "_", "l", "o", "_", "aa", "u">>,
      <<"t", "r", "aaf", "m", "_", "c", "ar", "m">>
   >>

\* "for compound in self.medical_compounds" walks a set: the order is the
\* one the process's string hashing gives, the same for the life of the set
Reverse(sq) == [i \in 1..Len(sq) |-> sq[Len(sq) + 1 - i]]
CompoundOrders == {medical_compounds, Reverse(medical_compounds)}

\* bound on the number of pieces a text is made of
MaxPieces == 3

\* the pieces the texts are made of: syllables of three compounds, followed
\* by a space, by a space and a line break after a capital, or by an
\* underscore, and "gan" run into "hoofi": the "n" belongs to "vieem gan"
\* and to "nhoofi masu" at once
Pieces ==
   {
      <<"v", "i", "ee", "m", " ">>,
      <<"V", "i", "ee", "m", " ", "\n">>,
      <<"v", "i", "ee", "m", "_">>,
      <<"g", "a", "n">>,
      <<"p", "h", "oor", "i">>,
      <<"g", "a", "n", "h", "oof", "i", " ">>,
      <<"m", "as", "u">>
   }

RECURSIVE Concat(_)
Concat(ps) == IF ps = <<>> THEN <<>> ELSE Head(ps) \o Concat(Tail(ps))

SegTexts == {Concat(ps) : ps \in SeqsUpTo(Pieces, MaxPieces)}

\* str.lower() on the characters of the texts
LowerChar(c) == IF c = "V" THEN "v" ELSE c
Lower(t) == [i \in DOMAIN t |-> LowerChar(t[i])]

\* compound.replace("_", r"\s+"): the syllables of the compound, with \s+
\* standing between two neighbours
RECURSIVE Pattern(_)
Pattern(compound) ==
    LET us == {i \in DOMAIN compound : compound[i] = "_"}
    IN  IF us = {} THEN <<compound>>
        ELSE LET u == CHOOSE i \in us : \A j \in us : i <= j
             IN  <<SubSeq(compound, 1, u - 1)>>
                    \o Pattern(SubSeq(compound, u + 1, Len(compound)))

\* the length of the run of whitespace of t that starts at p
SpaceRun(t, p) ==
    LET ends == {q \in p..(Len(t) + 1) :
                    /\ \A i \in p..(q - 1) : IsSpace(t[i])
                    /\ q = Len(t) + 1 \/ ~IsSpace(t[q])}
    IN  (CHOOSE q \in ends : TRUE) - p

\* re match of the pattern at offset p of t: the index after the match, 0
\* when there is none.  \s+ is greedy and every syllable starts with a
\* letter, so the whole run of whitespace is the only way to match.
RECURSIVE MatchEndAt(_, _, _)
MatchEndAt(t, p, syllables) ==
    LET s == Head(syllables)
        q == p + Len(s)
    IN  IF q - 1 > Len(t) \/ SubSeq(t, p, q - 1) # s THEN 0
        ELSE IF Len(syllables) = 1 THEN q
        ELSE IF SpaceRun(t, q) = 0 THEN 0
        ELSE MatchEndAt(t, q + SpaceRun(t, q), Tail(syllables))

\* re.sub(pattern, compound, t) from offset p on: leftmost matches, one
\* after the other, none overlapping
RECURSIVE ReSubFrom(_, _, _, _)
ReSubFrom(syllables, compound, t, p) ==
    IF p > Len(t) THEN <<>>
    ELSE LET e == MatchEndAt(t, p, syllables)
         IN  IF e # 0
             THEN compound \o ReSubFrom(syllables, compound, t, e)
             ELSE <<t[p]>> \o ReSubFrom(syllables, compound, t, p + 1)

ReSub(syllables, compound, t) == ReSubFrom(syllables, compound, t, 1)

\* the for loop of _segment_fallback over the compounds in order cs
RECURSIVE ReplaceCompounds(_, _)
ReplaceCompounds(cs, t) ==
    IF cs = <<>> THEN t
    ELSE ReplaceCompounds(Tail(cs), ReSub(Pattern(Head(cs)), Head(cs), t))

\* _segment_fallback
segment_fallback(cs, text) == ReplaceCompounds(cs, Lower(text))

\* _segment_with_underthesea without its try block
segment_with_underthesea_no_try(cs, text, tok) ==
    IF tok.raises
    THEN [outcome |-> "raised", value |-> <<>>, path |-> "underthesea"]
    ELSE [outcome |-> "returned", value |-> tok.words, path |-> "underthesea"]

\* _segment_with_underthesea: tok is what word_tokenize does on this call
segment_with_underthesea(cs, text, tok) ==
    IF tok.raises
    THEN [outcome |-> "returned", value |-> segment_fallback(cs, text),
          path |-> "fallback_after_error"]
    ELSE [outcome |-> "returned", value |-> tok.words, path |-> "underthesea"]

\* what word_tokenize(text, format="text") may do: raise, or return a string
TokenizerBehaviours(text) ==
    {[raises |-> TRUE, words |-> <<>>],
     [raises |-> FALSE, words |-> text],
     [raises |-> FALSE, words |-> <<"w">>]}

\* before VietnameseSegmenter(use_underthesea) runs
InitSegmentInputs ==
    /\ use_underthesea \in BOOLEAN
    /\ import_ok \in (IF use_underthesea THEN BOOLEAN ELSE {FALSE})
    /\ compound_order \in CompoundOrders
    /\ seg_text \in SegTexts
    /\ tokenizer \in (IF use_underthesea /\ import_ok
                      THEN TokenizerBehaviours(seg_text)
                      ELSE {[raises |-> TRUE, words |-> <<>>]})
    /\ seg_result = <<>>
    /\ seg_outcome = "none"
    /\ seg_path = "none"
    /\ seg_again = <<>>
    /\ seg_pc = "new"

InitSegment ==
    InitSegmentInputs /\ IdleSearch /\ IdleRerank /\ IdleRetrieve /\ IdleInit
    /\ IdleChunk /\ IdleEmbed /\ IdleInject
    /\ IdleMarkdown /\ IdleMetrics /\ IdleHtml /\ IdleAnalyze /\ IdleUpload /\ IdleCtor /\ IdleTable /\ IdleParent

\* __init__: the import is tried only when use_underthesea is set, and an
\* ImportError clears the flag
VietnameseSegmenter_init ==
    /\ seg_pc = "new"
    /\ use_underthesea' = (use_underthesea /\ import_ok)
    /\ seg_pc' = "ready"
    /\ UNCHANGED <<import_ok, tokenizer, compound_order, seg_text, seg_result,
                   seg_outcome, seg_path, seg_again>>
    /\ UNCHANGED notSegment

\* segment(text)
segment ==
    /\ seg_pc = "ready"
    /\ LET r == IF use_underthesea
                THEN segment_with_underthesea(compound_order, seg_text,
                                              tokenizer)
                ELSE [outcome |-> "returned",
                      value |-> segment_fallback(compound_order, seg_text),
                      path |-> "fallback"]
       IN  /\ seg_result' = r.value
           /\ seg_outcome' = r.outcome
           /\ seg_path' = r.path
    /\ seg_pc' = "done"
    /\ UNCHANGED <<import_ok, tokenizer, compound_order, use_underthesea,
                   seg_text, seg_again>>
    /\ UNCHANGED notSegment

\* _segment_fallback applied to what segment returned
segment_fallback_again ==
    /\ seg_pc = "done"
    /\ seg_outcome = "returned"
    /\ seg_again' = segment_fallback(compound_order, seg_result)
    /\ seg_pc' = "again"
    /\ UNCHANGED <<import_ok, tokenizer, compound_order, use_underthesea,
                   seg_text, seg_result, seg_outcome, seg_path>>
    /\ UNCHANGED notSegment

NextSegment ==
    \/ VietnameseSegmenter_init
    \/ segment
    \/ segment_fallback_again

SpecSegment == InitSegment /\ [][NextSegment]_vars

\* the tokenizer was not usable on this call: not asked for, not importable,
\* or raising
TokenizerUnusable == ~use_underthesea \/ tokenizer.raises

\* some compound still has its syllables separated by whitespace in t
CompoundLeft(t) ==
    \E c \in Range(medical_compounds) :
       \E p \in DOMAIN t : MatchEndAt(t, p, Pattern(c)) # 0

\* t with every run of whitespace and underscores shrunk to one "_"
RECURSIVE Skeleton(_)
Skeleton(t) ==
    IF t = <<>> THEN <<>>
    ELSE LET sep(c) == IsSpace(c) \/ c = "_"
         IN  IF sep(t[1])
             THEN IF Len(t) > 1 /\ sep(t[2]) THEN Skeleton(Tail(t))
                  ELSE <<"_">> \o Skeleton(Tail(t))
             ELSE <<t[1]>> \o Skeleton(Tail(t))

\* C17: segment never raises; when the tokenizer could not be imported or
\* raises, it returns the rule-based fallback of the same text, whatever the
\* order of the compounds: the lower-cased text, changed only in its
\* separators, with no compound left un-joined; the fallback applied to
\* that result gives it back.
C17_FallbackOnFailureIdempotent ==
    /\ seg_pc \in {"done", "again"} => seg_outcome = "returned"
    /\ (seg_pc \in {"done", "again"} /\ TokenizerUnusable) =>
          /\ seg_path # "underthesea"
          /\ \A cs \in CompoundOrders :
                seg_result = segment_fallback(cs, seg_text)
          /\ Len(seg_result) <= Len(seg_text)
          /\ Skeleton(seg_result) = Skeleton(Lower(seg_text))
          /\ ~CompoundLeft(seg_result)
    /\ (seg_pc = "again" /\ TokenizerUnusable) => seg_again = seg_result

\* the tokenizer raised on a text with a capital, two compounds sharing a
\* letter and whitespace of more than one kind; the fallback was applied
\* twice
C17_Witness ==
    /\ seg_pc = "again"
    /\ use_underthesea /\ tokenizer.raises
    /\ seg_path = "fallback_after_error"
    /\ seg_result # Lower(seg_text)
    /\ Lower(seg_text) # seg_text
    /\ \E p \in DOMAIN seg_result :
          /\ MatchEndAt(seg_result, p, <<medical_compounds[7]>>) # 0
          /\ MatchEndAt(seg_result, p + 7, <<medical_compounds[5]>>) # 0

----------------------------------------------------------------------------
(* StructureAwareChunker.chunk_markdown and _merge_small_chunks.  A body   *)
(* line is made of the digit of its line number, so that every character  *)
(* of a chunk tells which line, and so which section, it came from.       *)

\* bound on the number of lines of a document
MaxLines == 4

\* StructureAwareChunker(max_chunk_size, min_chunk_size, chunk_overlap)
MdMaxSizes == {6}
MdMinSizes == {2, 4}
MdOverlaps == {0, 2}

\* the character body line j is made of, and the text of a header at line j
LineChars == <<"1", "2", "3", "4", "5", "6">>

\* the kinds of line: headers of level 1 and 2, body lines, an empty line
LineKinds ==
    {[hashes |-> 1, len |-> 1], [hashes |-> 2, len |-> 1],
     [hashes |-> 0, len |-> 0], [hashes |-> 0, len |-> 1],
     [hashes |-> 0, len |-> 3], [hashes |-> 0, len |-> 4],
     [hashes |-> 0, len |-> 7]}

\* line j of a document as characters
LineText(kind, j) ==
    IF kind.hashes > 0
    THEN Rep("#", kind.hashes) \o <<" ">> \o Rep(LineChars[j], kind.len)
    ELSE Rep(LineChars[j], kind.len)

\* "\n".join(lines)
RECURSIVE JoinLines(_)
JoinLines(ls) ==
    IF ls = <<>> THEN <<>>
    ELSE IF Len(ls) = 1 THEN ls[1]
    ELSE ls[1] \o <<"\n">> \o JoinLines(Tail(ls))

Documents ==
    {JoinLines([j \in DOMAIN ks |-> LineText(ks[j], j)]) :
        ks \in UNION {[1..n -> LineKinds] : n \in 1..MaxLines}}

\* markdown_content.split("\n")
RECURSIVE SplitLines(_)
SplitLines(s) ==
    LET nl == {i \in DOMAIN s : s[i] = "\n"}
    IN  IF nl = {} THEN <<s>>
        ELSE LET p == CHOOSE i \in nl : \A j \in nl : i <= j
             IN  <<SubSeq(s, 1, p - 1)>>
                    \o SplitLines(SubSeq(s, p + 1, Len(s)))

\* the number of "#" at the start of s, and of whitespace characters
LeadingHashes(s) ==
    CHOOSE n \in 0..Len(s) :
       /\ \A i \in 1..n : s[i] = "#"
       /\ n = Len(s) \/ s[n + 1] # "#"

LeadingSpaces(s) ==
    CHOOSE n \in 0..Len(s) :
       /\ \A i \in 1..n : IsSpace(s[i])
       /\ n = Len(s) \/ ~IsSpace(s[n + 1])

\* re.match(r"^(#{1,6})\s+(.+)$", line): level 0 when there is no match,
\* else len(group(1)) and group(2).  \s+ gives its last character back when
\* nothing else is left for (.+).
header_match(line) ==
    LET hashes == LeadingHashes(line)
        rest == SubSeq(line, hashes + 1, Len(line))
        spaces == LeadingSpaces(rest)
        text == SubSeq(rest, spaces + 1, Len(rest))
        none == [level |-> 0, text |-> <<>>]
    IN  IF hashes < 1 \/ hashes > 6 \/ spaces = 0 THEN none
        ELSE IF text # <<>> THEN [level |-> hashes, text |-> text]
        ELSE IF spaces >= 2 THEN [level |-> hashes, text |-> <<rest[spaces]>>]
        ELSE none

\* [h for h in current_headers if h["level"] < level]
RECURSIVE Above(_, _)
Above(headers, level) ==
    IF headers = <<>> THEN <<>>
    ELSE IF Head(headers).level < level
         THEN <<Head(headers)>> \o Above(Tail(headers), level)
         ELSE Above(Tail(headers), level)

\* the chunk dict appended to chunks
Content(text, headers) ==
    [text |-> text, headers |-> headers, type |-> "content"]

\* the for loop of _merge_small_chunks, and the append after it
RECURSIVE MergeFrom(_, _, _)
MergeFrom(current, rest, min) ==
    IF rest = <<>> THEN <<current>>
    ELSE IF Len(current.text) < min
         THEN MergeFrom([current EXCEPT !.text = @ \o <<" ">> \o Head(rest).text],
                        Tail(rest), min)
         ELSE <<current>> \o MergeFrom(Head(rest), Tail(rest), min)

\* _merge_small_chunks
merge_small_chunks(chunks, min) ==
    IF chunks = <<>> THEN <<>> ELSE MergeFrom(Head(chunks), Tail(chunks), min)

InitMarkdownInputs ==
    /\ md_max \in MdMaxSizes
    /\ md_min \in MdMinSizes
    /\ md_overlap \in MdOverlaps
    /\ markdown_content \in Documents
    /\ md_lines = <<>>
    /\ md_i = 0
    /\ current_chunk = <<>>
    /\ current_headers = <<>>
    /\ md_chunks = <<>>
    /\ md_returned = <<>>
    /\ md_pc = "call"

InitMarkdown ==
    InitMarkdownInputs /\ IdleSearch /\ IdleRerank /\ IdleRetrieve /\ IdleInit
    /\ IdleChunk /\ IdleEmbed /\ IdleInject /\ IdleSegment
    /\ IdleMetrics /\ IdleHtml /\ IdleAnalyze /\ IdleUpload /\ IdleCtor /\ IdleTable /\ IdleParent

\* lines = markdown_content.split("\n")
chunk_markdown ==
    /\ md_pc = "call"
    /\ md_lines' = SplitLines(markdown_content)
    /\ md_i' = 1
    /\ md_pc' = "loop"
    /\ UNCHANGED <<md_max, md_min, md_overlap, markdown_content,
                   current_chunk, current_headers, md_chunks, md_returned>>
    /\ UNCHANGED notMarkdown

\* one turn of the loop on a header line
header_line ==
    /\ md_pc = "loop"
    /\ md_i <= Len(md_lines)
    /\ LET m == header_match(md_lines[md_i])
       IN  /\ m.level > 0
           /\ IF Strip(current_chunk) # <<>>
              THEN /\ md_chunks' = Append(md_chunks,
                          Content(Strip(current_chunk), current_headers))
                   /\ current_chunk' = <<>>
              ELSE UNCHANGED <<md_chunks, current_chunk>>
           /\ current_headers' =
                 Append(Above(current_headers, m.level),
                        [level |-> m.level, text |-> m.text])
    /\ md_i' = md_i + 1
    /\ UNCHANGED <<md_max, md_min, md_overlap, markdown_content, md_lines,
                   md_returned, md_pc>>
    /\ UNCHANGED notMarkdown

\* one turn of the loop on any other line
body_line ==
    /\ md_pc = "loop"
    /\ md_i <= Len(md_lines)
    /\ header_match(md_lines[md_i]).level = 0
    /\ LET grown == current_chunk \o md_lines[md_i] \o <<"\n">>
       IN  IF Len(grown) >= md_max
           THEN /\ md_chunks' = Append(md_chunks,
                       Content(Strip(PyTo(grown, md_max)), current_headers))
                /\ current_chunk' = PyFrom(grown, -md_overlap)
           ELSE /\ current_chunk' = grown
                /\ UNCHANGED md_chunks
    /\ md_i' = md_i + 1
    /\ UNCHANGED <<md_max, md_min, md_overlap, markdown_content, md_lines,
                   current_headers, md_returned, md_pc>>
    /\ UNCHANGED notMarkdown

\* after the loop: the last chunk, then return self._merge_small_chunks(chunks)
last_chunk_and_merge ==
    /\ md_pc = "loop"
    /\ md_i > Len(md_lines)
    /\ LET all == IF Strip(current_chunk) # <<>>
                  THEN Append(md_chunks,
                              Content(Strip(current_chunk), current_headers))
                  ELSE md_chunks
       IN  /\ md_chunks' = all
           /\ md_returned' = merge_small_chunks(all, md_min)
    /\ md_pc' = "done"
    /\ UNCHANGED <<md_max, md_min, md_overlap, markdown_content, md_lines,
                   md_i, current_chunk, current_headers>>
    /\ UNCHANGED notMarkdown

NextMarkdown ==
    \/ chunk_markdown
    \/ header_line
    \/ body_line
    \/ last_chunk_and_merge

SpecMarkdown == InitMarkdown /\ [][NextMarkdown]_vars

\* the lines of the document, and which of them are header lines
DocLines == SplitLines(markdown_content)
IsHeaderLine(j) == header_match(DocLines[j]).level > 0

\* the header lines before line j, and the nearest of them below a level
HeadersBefore(j, level) ==
    {p \in 1..(j - 1) : IsHeaderLine(p) /\ header_match(DocLines[p]).level < level}

\* the header path of header line p: its ancestors' path and itself
RECURSIVE PathOfHeader(_)
PathOfHeader(p) ==
    LET m == header_match(DocLines[p])
        up == HeadersBefore(p, m.level)
        own == <<[level |-> m.level, text |-> m.text]>>
    IN  IF up = {} THEN own
        ELSE PathOfHeader(CHOOSE q \in up : \A r \in up : r <= q) \o own

\* the header path of the nearest header line before line j
NearestHeaderPath(j) ==
    LET before == HeadersBefore(j, 7)
    IN  IF before = {} THEN <<>>
        ELSE PathOfHeader(CHOOSE q \in before : \A r \in before : r <= q)

\* the body lines a text has characters of
LinesIn(text) ==
    {j \in DOMAIN DocLines :
        ~IsHeaderLine(j) /\ \E i \in DOMAIN text : text[i] = LineChars[j]}

\* len of the document's body text: the characters of its body lines
RECURSIVE SumLen(_)
SumLen(ls) == IF ls = <<>> THEN 0 ELSE Len(Head(ls)) + SumLen(Tail(ls))
BodyLen ==
    SumLen([j \in DOMAIN DocLines |->
               IF IsHeaderLine(j) THEN <<>> ELSE DocLines[j]])

\* C18: a document whose body text exceeds max_chunk_size comes back as more
\* than one chunk, and every returned chunk, after the merge of the small
\* chunks, carries the header path of the nearest header line before its
\* text: it holds no text of a section with another header path.
C18_SplitAndTaggedByOwnSection ==
    md_pc = "done" =>
       /\ BodyLen > md_max => Len(md_returned) > 1
       /\ \A k \in DOMAIN md_returned :
             \A j \in LinesIn(md_returned[k].text) :
                md_returned[k].headers = NearestHeaderPath(j)

\* a body longer than max_chunk_size came back as one chunk that holds the
\* text of two sections under the header path of the first
C18_MergedAcrossSections ==
    /\ md_pc = "done"
    /\ BodyLen > md_max
    /\ Len(md_chunks) = 2
    /\ Len(md_returned) = 1
    /\ \E i, j \in LinesIn(md_returned[1].text) :
          /\ NearestHeaderPath(i) = md_returned[1].headers
          /\ NearestHeaderPath(j) # md_returned[1].headers
          /\ NearestHeaderPath(j) = md_chunks[2].headers

----------------------------------------------------------------------------
(* RAGEvaluator.calculate_mrr and calculate_ndcg_at_k.  A float is a       *)
(* fraction num / den of integers; nan is what np.mean gives for no query. *)

\* bound on the number of queries
MaxQueries == 2

\* the retrieved id lists and the relevant id lists of one query
RetrievedLists ==
    {<<>>, <<5>>, <<3, 5, 9>>, <<7, 8, 9>>, <<9, 1, 8>>, <<3, 9, 5>>,
     <<5, 5, 5>>}
RelevantLists == {<<>>, <<5>>, <<1>>, <<5, 9>>}

\* the values of k
Ks == {1, 2, 3}

\* 1.0 / rank is RRScale \div rank over RRScale, exact for the ranks 1..3
RRScale == 6

\* 1 / np.log2(rank + 1) in hundredths, for the ranks 1..3
Discount == <<100, 63, 50>>

Frac(n, d) == [nan |-> FALSE, num |-> n, den |-> d]
NaN == [nan |-> TRUE, num |-> 0, den |-> 1]

\* the sum of two fractions
FracAdd(x, y) == Frac(x.num * y.den + y.num * x.den, x.den * y.den)

\* x <= y, for fractions with positive denominators
FracLeq(x, y) == x.num * y.den <= y.num * x.den

\* np.mean of a list of fractions
RECURSIVE FracSum(_)
FracSum(xs) ==
    IF xs = <<>> THEN Frac(0, 1) ELSE FracAdd(Head(xs), FracSum(Tail(xs)))

Mean(xs) ==
    IF xs = <<>> THEN NaN
    ELSE Frac(FracSum(xs).num, FracSum(xs).den * Len(xs))

\* "for rank, doc_id in enumerate(retrieved_k, start=1)" from rank on, with
\* its break and its else branch
RECURSIVE ReciprocalRankFrom(_, _, _)
ReciprocalRankFrom(retrieved_k, relevant, rank) ==
    IF rank > Len(retrieved_k) THEN Frac(0, RRScale)
    ELSE IF retrieved_k[rank] \in Range(relevant)
         THEN Frac(RRScale \div rank, RRScale)
         ELSE ReciprocalRankFrom(retrieved_k, relevant, rank + 1)

\* the reciprocal rank of one query with the whole list looked at
ReciprocalRankWholeList(retrieved, relevant, k) ==
    ReciprocalRankFrom(retrieved, relevant, 1)

\* the body of the loop of calculate_mrr for one query
ReciprocalRank(retrieved, relevant, k) ==
    ReciprocalRankFrom(PyTo(retrieved, k), relevant, 1)

\* zip(results, relevant_docs)
Zip(xs, ys) == [q \in 1..Min(Len(xs), Len(ys)) |-> <<xs[q], ys[q]>>]

\* "dcg += relevance / np.log2(i + 1)" over retrieved_k from rank i on
RECURSIVE DcgFrom(_, _, _)
DcgFrom(retrieved_k, relevant_set, i) ==
    IF i > Len(retrieved_k) THEN 0
    ELSE (IF retrieved_k[i] \in relevant_set THEN Discount[i] ELSE 0)
            + DcgFrom(retrieved_k, relevant_set, i + 1)

\* ideal_ranking, and idcg: the sum over it
IdealRanking(relevant, k) ==
    Rep(1, Min(Len(relevant), k)) \o Rep(0, Max(0, k - Len(relevant)))

RECURSIVE IdcgFrom(_, _)
IdcgFrom(ideal_ranking, i) ==
    IF i > Len(ideal_ranking) THEN 0
    ELSE ideal_ranking[i] * Discount[i] + IdcgFrom(ideal_ranking, i + 1)

\* the body of the loop of calculate_ndcg_at_k for one query
Ndcg(retrieved, relevant, k) ==
    LET dcg == DcgFrom(PyTo(retrieved, k), Range(relevant), 1)
        idcg == IdcgFrom(IdealRanking(relevant, k), 1)
    IN  IF idcg > 0 THEN Frac(dcg, idcg) ELSE Frac(0, 1)

\* evaluate() appends to all_results and all_relevant in the same loop: the
\* two lists have one entry per query
InitMetricsInputs ==
    /\ \E n \in 0..MaxQueries :
          /\ all_results \in [1..n -> RetrievedLists]
          /\ all_relevant \in [1..n -> RelevantLists]
    /\ metric_k \in Ks
    /\ reciprocal_ranks = <<>>
    /\ mrr = Frac(0, 1)
    /\ ndcgs = <<>>
    /\ avg_ndcg = Frac(0, 1)
    /\ metric_pc = "call"

InitMetrics ==
    InitMetricsInputs /\ IdleSearch /\ IdleRerank /\ IdleRetrieve /\ IdleInit
    /\ IdleChunk /\ IdleEmbed /\ IdleInject /\ IdleSegment /\ IdleMarkdown
    /\ IdleHtml /\ IdleAnalyze /\ IdleUpload /\ IdleCtor /\ IdleTable /\ IdleParent

\* calculate_mrr(results, relevant_docs, k)
calculate_mrr ==
    /\ metric_pc = "call"
    /\ LET pairs == Zip(all_results, all_relevant)
           rrs == [q \in DOMAIN pairs |->
                      ReciprocalRank(pairs[q][1], pairs[q][2], metric_k)]
       IN  /\ reciprocal_ranks' = rrs
           /\ mrr' = Mean(rrs)
    /\ metric_pc' = "mrr"
    /\ UNCHANGED <<all_results, all_relevant, metric_k, ndcgs, avg_ndcg>>
    /\ UNCHANGED notMetrics

\* calculate_ndcg_at_k(results, relevant_docs, k)
calculate_ndcg_at_k ==
    /\ metric_pc = "call"
    /\ LET pairs == Zip(all_results, all_relevant)
           ns == [q \in DOMAIN pairs |->
                     Ndcg(pairs[q][1], pairs[q][2], metric_k)]
       IN  /\ ndcgs' = ns
           /\ avg_ndcg' = Mean(ns)
    /\ metric_pc' = "ndcg"
    /\ UNCHANGED <<all_results, all_relevant, metric_k, reciprocal_ranks, mrr>>
    /\ UNCHANGED notMetrics

NextMetrics ==
    \/ calculate_mrr
    \/ calculate_ndcg_at_k

SpecMetrics == InitMetrics /\ [][NextMetrics]_vars

\* the ranks, within the top k, of the retrieved ids of query q that are
\* relevant
RelevantRanks(q) ==
    {r \in 1..Min(metric_k, Len(all_results[q])) :
        \E i \in DOMAIN all_relevant[q] : all_results[q][r] = all_relevant[q][i]}

\* RRScale / r for the first of these ranks, 0 when there is none
FirstHit(q) ==
    IF RelevantRanks(q) = {} THEN 0
    ELSE RRScale \div (CHOOSE r \in RelevantRanks(q) :
                          \A o \in RelevantRanks(q) : r <= o)

\* the sum of FirstHit over the queries 1..n
RECURSIVE SumFirstHit(_)
SumFirstHit(n) == IF n = 0 THEN 0 ELSE FirstHit(n) + SumFirstHit(n - 1)

\* C19: calculate_mrr returns the average over the queries of 1/r, r the
\* rank of the first relevant id within the top k, 0 for a query without
\* one; relevant {5} with [3, 5, 9] gives 0.5 at k = 3 and with [7, 8, 9]
\* gives 0.
C19_MrrIsMeanReciprocalRank ==
    metric_pc = "mrr" =>
       /\ Len(reciprocal_ranks) = Len(all_results)
       /\ all_results = <<>> => mrr.nan
       /\ all_results # <<>> =>
             /\ ~mrr.nan
             /\ mrr.num * RRScale * Len(all_results) = SumFirstHit(Len(all_results)) * mrr.den
       /\ (all_results = <<<<3, 5, 9>>>> /\ all_relevant = <<<<5>>>> /\ metric_k = 3)
             => 2 * mrr.num = mrr.den
       /\ (all_results = <<<<7, 8, 9>>>> /\ all_relevant = <<<<5>>>> /\ metric_k = 3)
             => mrr.num = 0

\* two queries: the first relevant id at rank 2 of the first, and at rank 3
\* of the second, outside its top 2
C19_Witness ==
    /\ metric_pc = "mrr"
    /\ Len(all_results) = 2
    /\ metric_k = 2
    /\ FirstHit(1) = RRScale \div 2
    /\ FirstHit(2) = 0
    /\ all_results[2] = <<3, 9, 5>> /\ all_relevant[2] = <<5>>
    /\ 4 * mrr.num = mrr.den

\* the discounts of the relevant ranks of query q, and of the first
\* min(|relevant|, k) ranks
RECURSIVE SumDiscounts(_)
SumDiscounts(ranks) ==
    IF ranks = {} THEN 0
    ELSE LET r == CHOOSE x \in ranks : TRUE
         IN  Discount[r] + SumDiscounts(ranks \ {r})

DcgOfTopK(q) == SumDiscounts(RelevantRanks(q))

IdealDcg(q) == SumDiscounts(1..Min(Len(all_relevant[q]), metric_k))

\* C20: calculate_ndcg_at_k gives, for each query, the DCG of the top k
\* over the ideal DCG of min(|relevant|, k) relevant documents at the top,
\* 0 when the ideal DCG is 0, and the NDCG of every query and their average
\* lie between 0 and 1, also when the retrieved list repeats an id.
C20_NdcgBetweenZeroAndOne ==
    (metric_pc = "ndcg" /\ all_results # <<>>) =>
       /\ Len(ndcgs) = Len(all_results)
       /\ \A q \in DOMAIN ndcgs :
             /\ ndcgs[q] = IF IdealDcg(q) = 0 THEN Frac(0, 1)
                           ELSE Frac(DcgOfTopK(q), IdealDcg(q))
             /\ FracLeq(Frac(0, 1), ndcgs[q])
             /\ FracLeq(ndcgs[q], Frac(1, 1))
       /\ ~avg_ndcg.nan
       /\ FracLeq(Frac(0, 1), avg_ndcg)
       /\ FracLeq(avg_ndcg, Frac(1, 1))

\* one relevant id retrieved three times: a DCG of 1 + 0.63 + 0.5 over an
\* ideal DCG of 1
C20_RepeatedIdAboveOne ==
    /\ metric_pc = "ndcg"
    /\ all_results = <<<<5, 5, 5>>>>
    /\ all_relevant = <<<<5>>>>
    /\ metric_k = 3
    /\ ndcgs[1] = Frac(213, 100)
    /\ ~FracLeq(avg_ndcg, Frac(1, 1))

----------------------------------------------------------------------------
(* _find_sentence_boundary: where a window that is not the last one is cut *)

\* the cuts _find_sentence_boundary returned: the lengths of the windows
\* that were not the last one
BoundaryCuts ==
    {windows[i].w_end - windows[i].w_start :
        i \in {j \in DOMAIN windows : ~windows[j].final}}

\* C21: the offset _find_sentence_boundary(text, max_pos) returns lies
\* between 0.6 * max_pos and max_pos, whatever made the cut (paragraph
\* break, sentence end, bare line break, hard cut).
C21_CutWithinAcceptableRange ==
    \A cut \in BoundaryCuts :
       /\ AcceptTenths * child_max_size <= 10 * cut
       /\ cut <= child_max_size

\* a window cut at a bare line break before the minimum acceptable offset
C21_LineBreakBeforeMinimum ==
    \E i \in DOMAIN windows :
       /\ ~windows[i].final
       /\ ~windows[i].complete
       /\ windows[i].w_end - windows[i].w_start < MinAcceptable(child_max_size)
       /\ windows[i].w_end - windows[i].w_start > child_max_size - LineBreakWindow
       /\ parent_text[windows[i].w_end + 1] = "\n"

----------------------------------------------------------------------------
(* StructureAwareChunker.chunk_html and _process_element.  The parsed      *)
(* document is a tree: a node is a string (name "#text") or a tag with     *)
(* children.  The text of node j is made of the digit of its position.     *)

\* bound on the number of nodes under the document root
MaxNodes == 3

HtmlMaxSizes == {6}
HtmlMinSizes == {0, 3}
HtmlOverlaps == {2}

\* a NavigableString and a Tag
TextNode(t) ==
    [name |-> <<"#", "t", "e", "x", "t">>, text |-> t, children |-> <<>>]
TagNode(name, kids) ==
    [name |-> name, text |-> <<>>, children |-> kids]

\* the kinds of node under the root: h1, h2, a short and a long paragraph,
\* the line break between two tags
NodeKinds == {"h1", "h2", "p1", "p4", "nl"}

NodeOf(kind, j) ==
    CASE kind = "h1" -> TagNode(<<"h", "1">>, <<TextNode(<<LineChars[j]>>)>>)
      [] kind = "h2" -> TagNode(<<"h", "2">>, <<TextNode(<<LineChars[j]>>)>>)
      [] kind = "p1" -> TagNode(<<"p">>, <<TextNode(Rep(LineChars[j], 1))>>)
      [] kind = "p4" -> TagNode(<<"p">>, <<TextNode(Rep(LineChars[j], 4))>>)
      [] kind = "nl" -> TextNode(<<"\n">>)

\* BeautifulSoup(html_content, "html.parser"): the root of the tree
Soups ==
    {TagNode(<<"[", "d", "o", "c", "]">>, [j \in DOMAIN ks |-> NodeOf(ks[j], j)]) :
        ks \in UNION {[1..n -> NodeKinds] : n \in 1..MaxNodes}}

IsText(element) == element.name = <<"#", "t", "e", "x", "t">>

\* element.name in ["h1", ..., "h6"]
HeaderNames == {<<"h", d>> : d \in {"1", "2", "3", "4", "5", "6"}}

\* int() of one digit
DigitValue(d) ==
    CASE d = "1" -> 1 [] d = "2" -> 2 [] d = "3" -> 3
      [] d = "4" -> 4 [] d = "5" -> 5 [] d = "6" -> 6

\* element.get_text()
RECURSIVE get_text(_)
RECURSIVE get_text_of(_)
get_text_of(nodes) ==
    IF nodes = <<>> THEN <<>>
    ELSE get_text(Head(nodes)) \o get_text_of(Tail(nodes))
get_text(element) ==
    IF IsText(element) THEN element.text ELSE get_text_of(element.children)

\* [h for h in headers if int(h.split(":")[0][1]) < header_level]: an entry
\* is the string "h1: Title", its level the digit after the "h"
RECURSIVE HtmlAbove(_, _)
HtmlAbove(headers, header_level) ==
    IF headers = <<>> THEN <<>>
    ELSE IF DigitValue(Head(headers)[2]) < header_level
         THEN <<Head(headers)>> \o HtmlAbove(Tail(headers), header_level)
         ELSE HtmlAbove(Tail(headers), header_level)

\* f"{element.name}: {header_text}"
HeaderEntry(element) == element.name \o <<":", " ">> \o Strip(get_text(element))

\* _process_element(element, chunks, headers, current_text): what it
\* returns, and the list chunks after the appends it made.  headers is
\* rebound inside the call when the element is a header, so the list of the
\* caller stays as it was.
RECURSIVE process_element(_, _, _, _, _)
RECURSIVE process_children(_, _, _, _, _)

\* the "for child in element.children" loop with its size check
process_children(kids, chunks, headers, current_text, cfg) ==
    IF kids = <<>> THEN [text |-> current_text, chunks |-> chunks]
    ELSE LET r == process_element(Head(kids), chunks, headers,
                                  current_text, cfg)
         IN  IF Len(r.text) >= cfg.max
             THEN process_children(
                     Tail(kids),
                     Append(r.chunks,
                            Content(Strip(PyTo(r.text, cfg.max)), headers)),
                     headers, PyFrom(r.text, -cfg.overlap), cfg)
             ELSE process_children(Tail(kids), r.chunks, headers, r.text,
                                   cfg)

\* the three cases of _process_element: a string, a header tag, another tag
process_element(element, chunks, headers, current_text, cfg) ==
    IF IsText(element)
    THEN LET text == Strip(element.text)
         IN  [text |-> IF text # <<>> THEN current_text \o text \o <<" ">>
                       ELSE current_text,
              chunks |-> chunks]
    ELSE IF element.name \in HeaderNames
    THEN LET flush == Strip(current_text) # <<>>
             chunks1 == IF flush
                        THEN Append(chunks, Content(Strip(current_text), headers))
                        ELSE chunks
             text1 == IF flush THEN <<>> ELSE current_text
             header_level == DigitValue(element.name[2])
             headers1 == Append(HtmlAbove(headers, header_level),
                                HeaderEntry(element))
         IN  process_children(element.children, chunks1, headers1, text1, cfg)
    ELSE process_children(element.children, chunks, headers, current_text, cfg)

InitHtmlInputs ==
    /\ html_max \in HtmlMaxSizes
    /\ html_min \in HtmlMinSizes
    /\ html_overlap \in HtmlOverlaps
    /\ soup \in Soups
    /\ html_chunks = <<>>
    /\ html_left = <<>>
    /\ html_returned = <<>>
    /\ html_pc = "call"

InitHtml ==
    InitHtmlInputs /\ IdleSearch /\ IdleRerank /\ IdleRetrieve /\ IdleInit
    /\ IdleChunk /\ IdleEmbed /\ IdleInject /\ IdleSegment /\ IdleMarkdown
    /\ IdleMetrics
    /\ IdleAnalyze /\ IdleUpload /\ IdleCtor /\ IdleTable /\ IdleParent

\* chunk_html(html_content): the value _process_element returns is not
\* used; html_left keeps it (history)
chunk_html ==
    /\ html_pc = "call"
    /\ LET r == process_element(soup, <<>>, <<>>, <<>>,
                                [max |-> html_max, overlap |-> html_overlap])
       IN  /\ html_chunks' = r.chunks
           /\ html_left' = r.text
           /\ html_returned' = merge_small_chunks(r.chunks, html_min)
    /\ html_pc' = "done"
    /\ UNCHANGED <<html_max, html_min, html_overlap, soup>>
    /\ UNCHANGED notHtml

\* the caller reads the chunks
read_html_chunks ==
    /\ html_pc = "done"
    /\ html_pc' = "read"
    /\ UNCHANGED <<html_max, html_min, html_overlap, soup, html_chunks,
                   html_left, html_returned>>
    /\ UNCHANGED notHtml

NextHtml ==
    \/ chunk_html
    \/ read_html_chunks

SpecHtml == InitHtml /\ [][NextHtml]_vars

\* the header tags among the nodes before node j, below a level
HtmlHeadersBefore(j, level) ==
    {p \in 1..(j - 1) :
        /\ soup.children[p].name \in HeaderNames
        /\ DigitValue(soup.children[p].name[2]) < level}

\* the header path of header node p: the path of its nearest ancestor
\* header, then its own entry
RECURSIVE HtmlPathOfHeader(_)
HtmlPathOfHeader(p) ==
    LET up == HtmlHeadersBefore(p, DigitValue(soup.children[p].name[2]))
        own == <<HeaderEntry(soup.children[p])>>
    IN  IF up = {} THEN own
        ELSE HtmlPathOfHeader(CHOOSE q \in up : \A r \in up : r <= q) \o own

\* the header path in force at node j
HtmlPathAt(j) ==
    LET before == HtmlHeadersBefore(j, 7)
    IN  IF before = {} THEN <<>>
        ELSE HtmlPathOfHeader(CHOOSE q \in before : \A r \in before : r <= q)

\* the paragraphs a text has characters of
ParagraphsIn(text) ==
    {j \in DOMAIN soup.children :
        /\ soup.children[j].name = <<"p">>
        /\ \E i \in DOMAIN text : text[i] = LineChars[j]}

\* C22 (chunk_html): every chunk the traversal builds carries the header
\* path in force where its content stands: the headers before it of
\* strictly increasing depth, ending in the nearest header before the
\* content; so the chunk flushed at a header carries the previous path.
C22_ChunkCarriesPathOfItsHeader ==
    html_pc = "done" =>
       \A k \in DOMAIN html_chunks :
          /\ \A i, j \in DOMAIN html_chunks[k].headers :
                i < j => DigitValue(html_chunks[k].headers[i][2])
                            < DigitValue(html_chunks[k].headers[j][2])
          /\ \A j \in ParagraphsIn(html_chunks[k].text) :
                html_chunks[k].headers = HtmlPathAt(j)

\* a paragraph under a header was flushed, at the next header, with an
\* empty header path
C22_HeaderLostAfterItsTag ==
    /\ html_pc = "done"
    /\ Len(soup.children) = 3
    /\ soup.children[1].name = <<"h", "1">>
    /\ soup.children[2].name = <<"p">>
    /\ soup.children[3].name \in HeaderNames
    /\ Len(html_chunks) = 1
    /\ html_chunks[1].headers = <<>>
    /\ ParagraphsIn(html_chunks[1].text) = {2}
    /\ HtmlPathAt(2) = <<HeaderEntry(soup.children[1])>>

-----------------------------------------------------------------------------
(* The size flush of chunk_markdown (lines 145-157): the transition of    *)
(* body_line that appends a chunk.                                        *)

\* the buffer the size test of line 149 looks at
BufferAtSizeTest == current_chunk \o md_lines[md_i] \o <<"\n">>

\* the last n characters of s, all of s when it is shorter
LastChars(s, n) == SubSeq(s, Len(s) - Min(n, Len(s)) + 1, Len(s))

\* the number of times character c occurs in s
Occurrences(s, c) == Cardinality({p \in DOMAIN s : s[p] = c})

\* the characters kept after the lines read so far: the chunks and the buffer
KeptOccurrences(c) ==
    SumLen([n \in DOMAIN md_chunks |-> Rep(c, Occurrences(md_chunks[n].text, c))])
        + Occurrences(current_chunk, c)

\* C23: a size flush emits the buffer as one chunk under the unchanged
\* header path, the new buffer is exactly the last chunk_overlap characters
\* of the old one (so at most chunk_overlap long, empty for chunk_overlap 0),
\* and every position of the old buffer lies in the flushed slice or in the
\* retained seed.
C23_FlushKeepsEveryCharacter ==
    [][(/\ md_pc = "loop" /\ md_pc' = "loop"
        /\ md_i <= Len(md_lines)
        /\ header_match(md_lines[md_i]).level = 0
        /\ Len(md_chunks') = Len(md_chunks) + 1)
       => /\ md_chunks'[Len(md_chunks')].headers = current_headers
          /\ current_headers' = current_headers
          /\ current_chunk' = LastChars(BufferAtSizeTest, md_overlap)
          /\ Len(current_chunk') <= md_overlap
          /\ Len(BufferAtSizeTest) - Len(current_chunk') <= md_max]_vars

\* a body line already read has fewer of its characters in the chunks and
\* the buffer together than it had in the document: a buffered character
\* was dropped by a size flush
C23_BufferedCharacterDropped ==
    /\ md_pc = "loop"
    /\ md_overlap > 0
    /\ \E j \in DOMAIN md_lines :
          /\ j < md_i
          /\ header_match(md_lines[j]).level = 0
          /\ KeptOccurrences(LineChars[j]) < Occurrences(md_lines[j], LineChars[j])

\* with chunk_overlap = 0 the buffer after a size flush is the whole old
\* buffer, not the empty string
ZeroOverlapKeepsWholeBuffer ==
    /\ md_pc = "loop"
    /\ md_overlap = 0
    /\ md_chunks # <<>>
    /\ Len(current_chunk) >= md_max

----------------------------------------------------------------------------
(* The number of passages retrieve_context returns                         *)

\* C24: retrieve_context(query, top_k) returns at most top_k passages on
\* every path (reranked, not reranked, rerank failed, search failed), for
\* every top_k and the reranker's top_n of 5.
C24_AtMostTopKPassages ==
    retrieve_outcome = "returned" => Len(cleaned_context) <= top_k

\* a call whose rerank succeeded returned more passages than the top_k it
\* was asked for
C24_RerankedLongerThanTopK ==
    /\ retrieve_outcome = "returned"
    /\ retrieve_path = "reranked"
    /\ top_k < ServiceTopN
    /\ Len(cleaned_context) > top_k

----------------------------------------------------------------------------
(* ChunkQualityAnalyzer._analyze_chunk and _has_boundary_violation         *)

\* bound on the number of chunks analysed
MaxAnalysed == 2

\* text[-50:]
EndingWindow == 50

\* the characters of the analysed texts; "o." stands for the ideographic
\* full stop of good_endings
AnalysedChars == {"a", ".", "o.", "\n", " "}

\* the analysed texts: a first character, nothing or a run of spaces that
\* fills the window, and up to two last characters
AnalysedTexts ==
    {h \o Rep(" ", n) \o t :
        h \in SeqsUpTo({"a"}, 1), n \in {0, EndingWindow - 1},
        t \in SeqsUpTo(AnalysedChars, 2)}

good_endings == <<".", "!", "?", "o.", "\n">>

\* str.endswith(c) for a one-character c
EndsWith(s, c) == s # <<>> /\ s[Len(s)] = c

\* _has_boundary_violation
has_boundary_violation(text) ==
    LET ending == Strip(PyFrom(text, -EndingWindow))
    IN  IF \E n \in DOMAIN good_endings : EndsWith(ending, good_endings[n])
        THEN FALSE
        ELSE IF Len(ending) > 0 /\ ~IsSpace(ending[Len(ending)])
        THEN TRUE
        ELSE FALSE

InitAnalyzeInputs ==
    /\ an_chunks \in UNION {[1..n -> AnalysedTexts] : n \in 1..MaxAnalysed}
    /\ an_i = 1
    /\ boundary_violations = 0
    /\ incomplete_sentences = <<>>
    /\ an_pc = "loop"

\* one iteration of "for chunk in chunks: self._analyze_chunk(chunk)";
\* incomplete_sentences keeps the whole text of each flagged chunk
analyze_chunk ==
    /\ an_pc = "loop"
    /\ an_i <= Len(an_chunks)
    /\ IF has_boundary_violation(an_chunks[an_i])
       THEN /\ boundary_violations' = boundary_violations + 1
            /\ incomplete_sentences' =
                   Append(incomplete_sentences, an_chunks[an_i])
       ELSE UNCHANGED <<boundary_violations, incomplete_sentences>>
    /\ an_i' = an_i + 1
    /\ UNCHANGED <<an_chunks, an_pc>>
    /\ UNCHANGED notAnalyze

\* the loop is over: _calculate_statistics reads the counters
calculate_statistics ==
    /\ an_pc = "loop"
    /\ an_i > Len(an_chunks)
    /\ an_pc' = "done"
    /\ UNCHANGED <<an_chunks, an_i, boundary_violations, incomplete_sentences>>
    /\ UNCHANGED notAnalyze

InitAnalyze ==
    InitAnalyzeInputs /\ IdleSearch /\ IdleRerank /\ IdleRetrieve /\ IdleInit
    /\ IdleChunk /\ IdleEmbed /\ IdleInject /\ IdleSegment /\ IdleMarkdown
    /\ IdleMetrics /\ IdleHtml
    /\ IdleUpload /\ IdleCtor /\ IdleTable /\ IdleParent

NextAnalyze ==
    \/ analyze_chunk
    \/ calculate_statistics

SpecAnalyze == InitAnalyze /\ [][NextAnalyze]_vars

\* the last 50 characters of a text end in sentence-final punctuation or a
\* newline, or end at whitespace
EndsAtBoundary(text) ==
    LET last50 == PyFrom(text, -EndingWindow)
    IN  \/ \E n \in DOMAIN good_endings : EndsWith(last50, good_endings[n])
        \/ (last50 # <<>> /\ IsSpace(last50[Len(last50)]))

\* the analysed chunks that were flagged, by position
Flagged ==
    {n \in 1..(an_i - 1) :
        \E m \in DOMAIN incomplete_sentences :
            /\ incomplete_sentences[m] = an_chunks[n]}

\* C25: a chunk is counted as a boundary violation exactly when its last
\* 50 characters neither end in sentence-final punctuation or a newline
\* nor end at whitespace; a chunk ending with a newline or another
\* whitespace character is never counted.
C25_FlaggedExactlyWhenEndingMidSentence ==
    /\ boundary_violations = Len(incomplete_sentences)
    /\ \A n \in 1..(an_i - 1) :
          n \in Flagged <=> (an_chunks[n] # <<>> /\ ~EndsAtBoundary(an_chunks[n]))

\* a chunk whose text ends with a newline was counted as a violation
C25_NewlineEndingCounted ==
    /\ an_pc = "done"
    /\ \E n \in Flagged :
          /\ EndsWith(an_chunks[n], "\n")
    /\ boundary_violations > 0

----------------------------------------------------------------------------
(* Uploads to the same index: create_embedding, then add_documents        *)

\* the vectors stored so far by the upload in progress
StoredByThisUpload ==
    {id \in DOMAIN index_vectors : index_vectors[id][2] = added_calls}

\* C26: after create_embedding(S) and add_documents(N) on the same index,
\* the index holds a vector for every chunk of S and of N whose batch was
\* stored: adding documents never overwrites or replaces a vector of the
\* earlier upload.
C26_AddedDocumentsKeepEarlierVectors ==
    added_calls > 0 =>
        /\ \A id \in DOMAIN first_upload :
              \E kept \in DOMAIN index_vectors :
                  index_vectors[kept] = first_upload[id]
        /\ Cardinality(DOMAIN index_vectors) =
              Cardinality(DOMAIN first_upload)
                  + Cardinality(StoredByThisUpload)

\* add_documents has returned, every batch of both uploads was stored, and
\* the vector of the first chunk of S is gone: its id holds a chunk of N
C26_EarlierVectorReplaced ==
    /\ added_calls = 1
    /\ embed_pc = "returned"
    /\ failed_batches = 0
    /\ 0 \in DOMAIN first_upload
    /\ first_upload[0] = <<"split", 0, 0>>
    /\ index_vectors[0] = <<"split", 1, 0>>
    /\ \A id \in DOMAIN index_vectors : index_vectors[id] # first_upload[0]

-----------------------------------------------------------------------------
(* Progress of the sliding-window loop of _create_child_chunks            *)

\* the while loop is not interrupted: an iteration that can run does run
SpecChunkFair == SpecChunk /\ WF_vars(NextChunk)

\* child_overlap < floor(0.6 * child_max_size) and
\* child_overlap <= child_max_size - 100
OverlapWithinLimits ==
    /\ child_overlap < MinAcceptable(child_max_size)
    /\ child_overlap <= child_max_size - LineBreakWindow

\* the while loop has been left
WindowLoopOver == chunk_pc \in {"count", "merge", "done"}

\* C27: with child_overlap < floor(0.6 * child_max_size) and child_overlap
\* <= child_max_size - 100, every iteration of the sliding-window loop
\* strictly increases start, and the loop terminates for every parent text.
C27_StartAdvancesAndLoopEnds ==
    /\ [][(OverlapWithinLimits /\ chunk_pc = "split") => start' > start]_vars
    /\ (OverlapWithinLimits /\ chunk_pc = "enter") ~> WindowLoopOver

\* the loop has ended after three or more iterations, one of which cut at
\* a bare line break and advanced by less than half a window
C27_LoopEndedAfterShortStep ==
    /\ OverlapWithinLimits
    /\ chunk_pc = "count"
    /\ Len(windows) >= 3
    /\ \E k \in 1..(Len(windows) - 1) :
          /\ ~windows[k].final
          /\ ~windows[k].complete
          /\ CharAt(parent_text, windows[k].w_end) = "\n"
          /\ 2 * (windows[k + 1].w_start - windows[k].w_start) < child_max_size

----------------------------------------------------------------------------
(* A failed construction of the reranker                                   *)

\* C28: once constructing the Reranker has failed, use_reranker is and
\* stays False, construction is never attempted again, and every later
\* retrieve_context call whose search succeeds, one passing
\* use_reranker=True included, returns the un-reranked candidates
\* truncated to top_k (cleaned by preprocess_context like every result).
C28_FailedConstructionDisablesReranking ==
    ctor_failed =>
        /\ use_reranker = FALSE
        /\ reranker_obj = "None"
        /\ ctor_calls = 1
        /\ retrieve_path \in {"no_rerank", "error"}
        /\ retrieve_path = "no_rerank" =>
              cleaned_context =
                  preprocess_context(
                      [i \in 1..Min(top_k, Len(docs)) |-> docs[i].page_content])

\* construction had failed in an earlier call, and a later call passing
\* use_reranker=True returned the first top_k of more candidates
C28_LaterCallNotReranked ==
    /\ ctor_failed
    /\ later_calls >= 2
    /\ should_rerank
    /\ retrieve_path = "no_rerank"
    /\ Len(context_candidates) > top_k
    /\ Len(cleaned_context) = top_k

----------------------------------------------------------------------------
(* RAGEvaluator.evaluate_all_metrics: MRR, Recall and HitRate for each k   *)
(* of k_values over the same all_results and all_relevant.  Precision and  *)
(* NDCG, computed in the same loop, are left out of the table.             *)

\* the k_values lists
KValueLists == {<<1, 2, 3>>, <<3, 1>>}

\* the body of the loop of calculate_precision_at_k for one query
PrecisionShare(retrieved, relevant, k) ==
    Frac(Cardinality(Range(PyTo(retrieved, k)) \cap Range(relevant)), k)

\* the body of the loop of calculate_recall_at_k for one query with a
\* non-empty relevant list
RecallShare(retrieved, relevant, k) ==
    Frac(Cardinality(Range(PyTo(retrieved, k)) \cap Range(relevant)),
         Cardinality(Range(relevant)))

\* calculate_recall_at_k: queries without relevant ids are skipped
recall_at_k(rs, rel, k) ==
    LET pairs == Zip(rs, rel)
        kept == SelectSeq(pairs, LAMBDA p : Len(p[2]) # 0)
    IN  Mean([q \in DOMAIN kept |-> RecallShare(kept[q][1], kept[q][2], k)])

\* calculate_mrr as a function of its arguments
mrr_at_k(rs, rel, k) ==
    LET pairs == Zip(rs, rel)
    IN  Mean([q \in DOMAIN pairs |->
                 ReciprocalRank(pairs[q][1], pairs[q][2], k)])

\* calculate_hit_rate_at_k
hit_rate_at_k(rs, rel, k) ==
    LET pairs == Zip(rs, rel)
        hits == Cardinality({q \in DOMAIN pairs :
                    Range(PyTo(pairs[q][1], k)) \cap Range(pairs[q][2]) # {}})
    IN  IF Len(rs) > 0 THEN Frac(hits, Len(rs)) ELSE Frac(0, 1)

InitTableInputs ==
    /\ \E n \in 0..MaxQueries :
          /\ all_results \in [1..n -> RetrievedLists]
          /\ all_relevant \in [1..n -> RelevantLists]
    /\ metric_k = 0
    /\ reciprocal_ranks = <<>>
    /\ mrr = Frac(0, 1)
    /\ ndcgs = <<>>
    /\ avg_ndcg = Frac(0, 1)
    /\ metric_pc = "idle"
    /\ k_values \in KValueLists
    /\ table_i = 1
    /\ metrics_table = <<>>

InitTable ==
    InitTableInputs /\ IdleSearch /\ IdleRerank /\ IdleRetrieve /\ IdleInit
    /\ IdleChunk /\ IdleEmbed /\ IdleInject /\ IdleSegment /\ IdleMarkdown
    /\ IdleHtml /\ IdleAnalyze /\ IdleUpload /\ IdleCtor
    /\ IdleParent

\* one iteration of "for k in k_values"
metrics_for_k ==
    /\ table_i >= 1
    /\ table_i <= Len(k_values)
    /\ LET k == k_values[table_i] IN
       metrics_table' =
           Append(metrics_table,
                  [k |-> k,
                   mrr |-> mrr_at_k(all_results, all_relevant, k),
                   recall |-> recall_at_k(all_results, all_relevant, k),
                   hit_rate |-> hit_rate_at_k(all_results, all_relevant, k)])
    /\ table_i' = table_i + 1
    /\ UNCHANGED k_values
    /\ UNCHANGED <<searchVars, rerankVars, retrieveVars, initVars, chunkVars,
                   embedVars, injectVars, segmentVars, markdownVars,
                   metricsVars, htmlVars, analyzeVars, uploadVars, ctorVars,
                   parentVars>>

NextTable == metrics_for_k

SpecTable == InitTable /\ [][NextTable]_vars

\* y is not less than x; nan only next to nan
NotDecreased(x, y) ==
    IF x.nan \/ y.nan THEN x.nan /\ y.nan ELSE FracLeq(x, y)

\* C29: for the same retrieved lists and relevance sets of a non-empty
\* query set, MRR@k, Recall@k and HitRate@k never decrease when k
\* increases, and MRR@k <= HitRate@k <= 1 for every k.
C29_MetricsGrowWithK ==
    all_results # <<>> =>
        /\ \A a, b \in DOMAIN metrics_table :
              metrics_table[a].k < metrics_table[b].k =>
                 /\ NotDecreased(metrics_table[a].mrr, metrics_table[b].mrr)
                 /\ NotDecreased(metrics_table[a].recall,
                                 metrics_table[b].recall)
                 /\ NotDecreased(metrics_table[a].hit_rate,
                                 metrics_table[b].hit_rate)
        /\ \A a \in DOMAIN metrics_table :
              /\ ~metrics_table[a].mrr.nan
              /\ FracLeq(metrics_table[a].mrr, metrics_table[a].hit_rate)
              /\ FracLeq(metrics_table[a].hit_rate, Frac(1, 1))

\* the table is complete for k = 1, 2, 3 over two queries; from k = 1 to
\* k = 3 all three metrics grew, and MRR@3 is below HitRate@3
C29_AllThreeGrew ==
    /\ Len(all_results) = 2
    /\ Len(metrics_table) = 3
    /\ metrics_table[1].k = 1
    /\ metrics_table[3].k = 3
    /\ ~FracLeq(metrics_table[3].mrr, metrics_table[1].mrr)
    /\ ~metrics_table[1].recall.nan
    /\ ~FracLeq(metrics_table[3].recall, metrics_table[1].recall)
    /\ ~FracLeq(metrics_table[3].hit_rate, metrics_table[1].hit_rate)
    /\ ~FracLeq(metrics_table[3].hit_rate, metrics_table[3].mrr)

----------------------------------------------------------------------------
(* OptimizedParentChildChunker._create_parent_chunks and _detect_header.  *)
(* A line is a sequence of characters.  An accented Vietnamese letter is  *)
(* one character, written by its Telex spelling: "af" is a with a grave   *)
(* accent, "AF" its capital.                                              *)

\* bound on the number of lines of a document
MaxParentLines == 3

\* OptimizedParentChildChunker(parent_max_size=...)
ParentMaxSizes == {2, 12}

Filenames == {"doc"}

AsciiUpper ==
    <<"A", "B", "C", "D", "E", "F", "G", "H", "I", "J", "K", "L", "M",
      "N", "O", "P", "Q", "R", "S", "T", "U", "V", "W", "X", "Y", "Z">>

AsciiLower ==
    <<"a", "b", "c", "d", "e", "f", "g", "h", "i", "j", "k", "l", "m",
      "n", "o", "p", "q", "r", "s", "t", "u", "v", "w", "x", "y", "z">>

\* the accented letters the keywords of pattern 3 are written with
AccentedUpper == <<"AF", "IF", "UW", "EES", "AJ">>
AccentedLower == <<"af", "if", "uw", "ees", "aj">>

\* the letters of the character class of pattern 2, without \s
CapsLetters ==
    {AsciiUpper[i] : i \in DOMAIN AsciiUpper}
        \cup {AccentedUpper[i] : i \in DOMAIN AccentedUpper} \cup {"DD"}

\* re.IGNORECASE: a character as the matcher compares it
CaseFold(c) ==
    IF \E i \in DOMAIN AsciiUpper : AsciiUpper[i] = c
    THEN AsciiLower[CHOOSE i \in DOMAIN AsciiUpper : AsciiUpper[i] = c]
    ELSE IF \E i \in DOMAIN AccentedUpper : AccentedUpper[i] = c
    THEN AccentedLower[CHOOSE i \in DOMAIN AccentedUpper :
                           AccentedUpper[i] = c]
    ELSE c

\* the number of characters of the class at the start of s
LeadingRun(s, class) ==
    CHOOSE n \in 0..Len(s) :
       /\ \A i \in 1..n : s[i] \in class
       /\ n = Len(s) \/ s[n + 1] \notin class

\* "\s+(.+)$" on what follows a prefix: \s+ takes one whitespace character
\* at least and (.+) one character at least
SpaceThenText(rest) == Len(rest) >= 2 /\ IsSpace(rest[1])

\* the alternatives of pattern 3, word by word
question_words ==
    << << <<"l", "af">>, <<"g", "if">> >>,
       << <<"n", "h", "uw">>, <<"t", "h", "ees">>, <<"n", "af", "o">> >>,
       << <<"t", "aj", "i">>, <<"s", "a", "o">> >>,
       << <<"v", "if">>, <<"s", "a", "o">> >> >>

\* re.match(r"^(.+\s+(la gi|nhu the nao|tai sao|vi sao)\??)$", line,
\* re.IGNORECASE): one character at least, whitespace, the words, and an
\* optional question mark at the end of the line
question_match(line) ==
    LET folded == [i \in DOMAIN line |-> CaseFold(line[i])]
    IN  \E k \in DOMAIN question_words : \E p \in 3..Len(line) :
           /\ IsSpace(line[p - 1])
           /\ LET e == MatchEndAt(folded, p, question_words[k])
              IN  /\ e # 0
                  /\ \/ e = Len(line) + 1
                     \/ e = Len(line) /\ line[e] = "?"

RomanDigits == {"I", "V", "X", "i", "v", "x"}
DecimalDigits == {"0", "1", "2", "3", "4", "5", "6", "7", "8", "9"}

\* the length of the prefix "([IVXivx]+\.|[\d]+\.|[a-z]\.)" of the line,
\* 0 when the line has none
numbered_prefix(line) ==
    LET roman == LeadingRun(line, RomanDigits)
        digits == LeadingRun(line, DecimalDigits)
        dot(n) == n >= 1 /\ n < Len(line) /\ line[n + 1] = "."
    IN  IF dot(roman) THEN roman + 1
        ELSE IF dot(digits) THEN digits + 1
        ELSE IF /\ Len(line) >= 2
                /\ \E i \in DOMAIN AsciiLower : AsciiLower[i] = line[1]
                /\ line[2] = "."
        THEN 2
        ELSE 0

\* re.match(r"^[\*_]{2}(.+?)[\*_]{2}$", line)
bold_match(line) ==
    /\ Len(line) >= 5
    /\ \A i \in {1, 2, Len(line) - 1, Len(line)} : line[i] \in {"*", "_"}

\* _detect_header(line): the five patterns in the order of the code;
\* found is FALSE where the code returns None
detect_header(line) ==
    LET md == header_match(line)
        n == numbered_prefix(line)
        after == SubSeq(line, n + 1, Len(line))
    IN  IF md.level > 0
        THEN [found |-> TRUE, text |-> Strip(md.text), depth |-> md.level]
        ELSE IF /\ Len(line) >= 10
                /\ \A i \in DOMAIN line :
                      line[i] \in CapsLetters \/ IsSpace(line[i])
                /\ Len(line) < 100
        THEN [found |-> TRUE, text |-> Strip(line), depth |-> 1]
        ELSE IF question_match(line) /\ 10 < Len(line) /\ Len(line) < 100
        THEN [found |-> TRUE, text |-> Strip(line), depth |-> 2]
        ELSE IF n > 0 /\ SpaceThenText(after) /\ Len(line) < 100
        THEN [found |-> TRUE, text |-> Strip(after), depth |-> 2]
        ELSE IF bold_match(line) /\ Len(line) < 100
        THEN [found |-> TRUE,
              text |-> Strip(SubSeq(line, 3, Len(line) - 2)), depth |-> 2]
        ELSE [found |-> FALSE, text |-> <<>>, depth |-> 0]

\* the lines of the modelled documents: an empty line, a line of one
\* space, body lines, a line that starts with "#" and is no header, and
\* one header of each of the five patterns, the second pattern also by a
\* line of ten spaces
ParentLines ==
    {<<>>, <<" ">>, <<"a">>, <<"a", "b", "c", "d", "e">>, <<"#", "a">>,
     <<"#", " ", "H">>,
     Rep("A", 10), Rep(" ", 10),
     <<"T", "r", "i", "e", "u", " ", "l", "af", " ", "g", "if", "?">>,
     <<"1", ".", " ", "a">>,
     <<"*", "*", "a", "*", "*">>}

Introduction ==
    <<"I", "n", "t", "r", "o", "d", "u", "c", "t", "i", "o", "n">>

\* f"{filename}_parent_{section_id}"
ParentId(filename, n) == <<filename, "_parent_", n>>

\* the dictionary appended to parents
ParentChunk(section) ==
    [id |-> ParentId(par_filename, section_id),
     text |-> Strip(section),
     header |-> current_header,
     section_depth |-> current_depth,
     filename |-> par_filename,
     type |-> "parent",
     char_count |-> Len(Strip(section))]

InitParentInputs ==
    /\ par_content \in
          {JoinLines(ls) :
              ls \in UNION {[1..n -> ParentLines] : n \in 1..MaxParentLines}}
    /\ par_filename \in Filenames
    /\ parent_max_size \in ParentMaxSizes
    /\ par_lines = <<>>
    /\ par_i = 0
    /\ current_section = <<>>
    /\ current_header = <<>>
    /\ current_depth = 0
    /\ section_id = 0
    /\ parents = <<>>
    /\ par_pc = "enter"

InitParent ==
    InitParentInputs /\ IdleSearch /\ IdleRerank /\ IdleRetrieve /\ IdleInit
    /\ IdleChunk /\ IdleEmbed /\ IdleInject /\ IdleSegment /\ IdleMarkdown
    /\ IdleMetrics /\ IdleHtml /\ IdleAnalyze /\ IdleUpload /\ IdleCtor
    /\ IdleTable

\* lines 159-165: the locals before the loop
create_parent_chunks ==
    /\ par_pc = "enter"
    /\ parents' = <<>>
    /\ par_lines' = SplitLines(par_content)
    /\ current_section' = <<>>
    /\ current_header' = Introduction
    /\ current_depth' = 1
    /\ section_id' = 0
    /\ par_i' = 1
    /\ par_pc' = "loop"
    /\ UNCHANGED <<par_content, par_filename, parent_max_size>>
    /\ UNCHANGED notParent

\* one iteration of "for line in lines"
scan_line ==
    /\ par_pc = "loop"
    /\ par_i <= Len(par_lines)
    /\ LET line == par_lines[par_i]
           header_info == detect_header(line)
           grown == current_section \o line \o <<"\n">>
       IN  IF header_info.found
           THEN /\ IF Strip(current_section) # <<>>
                   THEN /\ parents' = Append(parents, ParentChunk(current_section))
                        /\ section_id' = section_id + 1
                   ELSE UNCHANGED <<parents, section_id>>
                /\ current_header' = header_info.text
                /\ current_depth' = header_info.depth
                /\ current_section' = <<>>
           ELSE /\ IF Len(grown) >= parent_max_size
                   THEN /\ parents' = Append(parents, ParentChunk(grown))
                        /\ section_id' = section_id + 1
                        /\ current_section' = <<>>
                   ELSE /\ current_section' = grown
                        /\ UNCHANGED <<parents, section_id>>
                /\ UNCHANGED <<current_header, current_depth>>
    /\ par_i' = par_i + 1
    /\ UNCHANGED <<par_content, par_filename, parent_max_size, par_lines,
                   par_pc>>
    /\ UNCHANGED notParent

\* lines 213-226: the section left after the last line, and the return
add_last_section ==
    /\ par_pc = "loop"
    /\ par_i > Len(par_lines)
    /\ IF Strip(current_section) # <<>>
       THEN parents' = Append(parents, ParentChunk(current_section))
       ELSE UNCHANGED parents
    /\ par_pc' = "returned"
    /\ UNCHANGED <<par_content, par_filename, parent_max_size, par_lines,
                   par_i, current_section, current_header, current_depth,
                   section_id>>
    /\ UNCHANGED notParent

NextParent == create_parent_chunks \/ scan_line \/ add_last_section

SpecParent == InitParent /\ [][NextParent]_vars

\* C30: every parent chunk _create_parent_chunks emits has a non-empty
\* text and a char_count of 1 at least, whichever of the three flushes
\* (header, accumulator at parent_max_size, end of input) emitted it, and
\* the ids of the parents of a document are {filename}_parent_0,
\* {filename}_parent_1, ... in document order, pairwise distinct.
C30_ParentsNonEmptyAndNumbered ==
    /\ \A p \in DOMAIN parents :
          /\ parents[p].text # <<>>
          /\ parents[p].char_count >= 1
          /\ parents[p].id = ParentId(par_filename, p - 1)
    /\ \A p, q \in DOMAIN parents :
          p # q => parents[p].id # parents[q].id

\* the function returned a list whose ids are numbered in order, and one
\* of its parents, emitted when the accumulator reached parent_max_size,
\* has an empty text and a char_count of 0
C30_EmptyParentEmitted ==
    /\ par_pc = "returned"
    /\ \A p \in DOMAIN parents : parents[p].id = ParentId(par_filename, p - 1)
    /\ \E p \in DOMAIN parents :
          /\ parents[p].text = <<>>
          /\ parents[p].char_count = 0

\* the ids alone: numbered from 0 in the order of the list
ParentIdsInOrder ==
    \A p \in DOMAIN parents : parents[p].id = ParentId(par_filename, p - 1)

\* a parent emitted at a header or after the last line is never empty
HeaderAndLastFlushNonEmpty ==
    [][(/\ Len(parents') = Len(parents) + 1
        /\ \/ par_pc' = "returned"
           \/ par_pc = "loop" /\ par_i <= Len(par_lines)
                 /\ detect_header(par_lines[par_i]).found)
       => parents'[Len(parents')].char_count >= 1]_vars

\* detect_header on the modelled lines: the six headers and their depths
HeadersDetected ==
    /\ \A l \in {<<>>, <<" ">>, <<"a">>, <<"a", "b", "c", "d", "e">>,
                 <<"#", "a">>} : ~detect_header(l).found
    /\ detect_header(<<"#", " ", "H">>).depth = 1
    /\ detect_header(Rep("A", 10)).depth = 1
    /\ detect_header(Rep(" ", 10)).text = <<>>
    /\ detect_header(<<"1", ".", " ", "a">>).text = <<"a">>
    /\ detect_header(<<"*", "*", "a", "*", "*">>).text = <<"a">>
    /\ detect_header(<<"T", "r", "i", "e", "u", " ", "l", "af", " ", "g",
                       "if", "?">>).depth = 2

====
